---- MODULE Spec2Model ----
(***************************************************************************)
(* A model of the Play Store review analysis system:                       *)
(*   - PlayStoreAnalysisSystem (job bookkeeping, caches, runAnalysis)      *)
(*   - AggregationService      (time bucketing, trend data points)         *)
(*   - ReviewAnalysisService   (sentiment, keywords, intentions)           *)
(*   - ClassificationService   (similarity clustering, feature/bug         *)
(*                              clusters)                                  *)
(* Each part has its own specification over the shared variables; the      *)
(* variables of the other parts stay at their idle values.                 *)
(***************************************************************************)
EXTENDS Integers, Sequences, FiniteSets, TLC

VARIABLES
    \* ---- PlayStoreAnalysisSystem ----
    jobs,            \* this.jobs: job id -> AnalysisJob, or NoJob
    pc,              \* position of each job's analyzeApp / runAnalysis
    active,          \* the job whose synchronous section is executing, or 0
    analysisCache,   \* this.analysisCache: key -> CacheEntry, or NoEntry
    metadataCache,   \* this.metadataCache
    reviewCache,     \* this.reviewCache
    reviewCount,     \* reviews.length of each run
    aborted,         \* options.abortSignal.aborted of each job
    now,             \* Date.now()
    cancelledInFlight, \* history: jobs for which cancelJob returned true mid-run
    metrics,         \* this.metrics: cacheHits and cacheMisses
    calls,           \* direct calls of fetchAppMetadata / fetchReviews in flight
    \* ---- AggregationService ----
    aggIn,           \* the arguments of aggregateResults and the clock
    aggOut,          \* the AggregatedResults returned, or NoResult
    \* ---- ReviewAnalysisService ----
    txtIn,           \* the arguments of the function under analysis
    txtOut,          \* its return value, or NoOutput
    \* ---- ClassificationService ----
    clsIn,           \* the arguments of classifyReviews
    clsOut           \* the ClassificationResult returned, or NoClassification

jobVars == <<jobs, pc, active, analysisCache, metadataCache, reviewCache,
             reviewCount, aborted, now, cancelledInFlight, metrics, calls>>

aggVars == <<aggIn, aggOut>>

txtVars == <<txtIn, txtOut>>

clsVars == <<clsIn, clsOut>>

nonJobVars == <<aggVars, txtVars, clsVars>>

vars == <<jobVars, aggVars, txtVars, clsVars>>

(***************************************************************************)
(* Bounds of the job model.                                                *)
(***************************************************************************)
MaxJobs == 2
MaxTime == 2
Ttl == 1
MaxReviews == 1

JobIds == 1..MaxJobs
AppIds == {"app.a"}
\* options.cache.enabled as given by the caller
OptionBags == {[cacheEnabled |-> TRUE], [cacheEnabled |-> FALSE]}

NoJob == [status |-> "absent"]
NoEntry == [present |-> FALSE]

CancelMessage == "Job cancelled by user"
AbortMessage == "Operation aborted"
FetchMessage == "fetch failed"

\* JobStatus, in pipeline order
StatusOrder == <<"pending", "fetching", "analyzing", "classifying",
                 "aggregating", "completed">>

Rank(s) == CHOOSE i \in 1..Len(StatusOrder) : StatusOrder[i] = s

Terminal(s) == s \in {"completed", "failed"}

\* generateCacheKey: appId plus the serialized option bag
generateCacheKey(appId, options) == <<appId, options>>

CacheKeys == {generateCacheKey(a, o) : a \in AppIds, o \in OptionBags}

\* a cache entry written at time t
Entry(data, t) == [present |-> TRUE, data |-> data, timestamp |-> t,
                   expiresAt |-> t + Ttl]

\* variant: an entry is used whenever the cache has the key
Present(cache, key) == cache[key].present

\* cache.has(key) && entry.expiresAt > now
Fresh(cache, key) == cache[key].present /\ cache[key].expiresAt > now

\* variant: only the hits are counted
CountedHits(m, hit) ==
    IF hit THEN [m EXCEPT !.cacheHits = @ + 1] ELSE m

\* getOrFetch, the part before the fetch: a fresh entry of an enabled cache
\* is a hit (this.metrics.cacheHits++), anything else a miss
\* (this.metrics.cacheMisses++)
Counted(m, hit) ==
    IF hit THEN [m EXCEPT !.cacheHits = @ + 1]
    ELSE [m EXCEPT !.cacheMisses = @ + 1]

\* variant: the end time is never recorded
StatusWithoutEndTime(js, j, status, progress, error) ==
    IF js[j] = NoJob THEN js
    ELSE [js EXCEPT ![j] =
            [@ EXCEPT !.status = status,
                      !.progress = progress,
                      !.error = IF error # "" THEN error ELSE @]]

\* updateJobStatus(jobId, status, progress, error)
updateJobStatus(js, j, status, progress, error) ==
    IF js[j] = NoJob THEN js
    ELSE [js EXCEPT ![j] =
            [@ EXCEPT !.status = status,
                      !.progress = progress,
                      !.error = IF error # "" THEN error ELSE @,
                      !.endTime = IF Terminal(status) THEN TRUE ELSE @]]

JobIdle ==
    /\ jobs = [j \in JobIds |-> NoJob]
    /\ pc = [j \in JobIds |-> "none"]
    /\ active = 0
    /\ analysisCache = [k \in CacheKeys |-> NoEntry]
    /\ metadataCache = [a \in AppIds |-> NoEntry]
    /\ reviewCache = [k \in CacheKeys |-> NoEntry]
    /\ reviewCount = [j \in JobIds |-> 0]
    /\ aborted = [j \in JobIds |-> FALSE]
    /\ now = 0
    /\ cancelledInFlight = {}
    /\ metrics = [cacheHits |-> 0, cacheMisses |-> 0]
    /\ calls = <<>>

NoResult == [done |-> FALSE]

AggIdle ==
    /\ aggIn = [idle |-> TRUE]
    /\ aggOut = NoResult

NoOutput == [done |-> FALSE]

TxtIdle ==
    /\ txtIn = [idle |-> TRUE]
    /\ txtOut = NoOutput

NoClassification == [done |-> FALSE]

ClsIdle ==
    /\ clsIn = [idle |-> TRUE]
    /\ clsOut = NoClassification

Init == JobIdle /\ AggIdle /\ TxtIdle /\ ClsIdle

\* variant: the signal is never looked at
NeverAborted(signal, j) == FALSE

\* options.abortSignal?.aborted
SignalAborted(signal, j) == signal[j]

\* analyzeApp, up to the creation of the job
AnalyzeApp(j, appId, options) ==
    /\ UNCHANGED nonJobVars
    /\ active = 0
    /\ jobs[j] = NoJob
    /\ \A i \in JobIds : i < j => jobs[i] # NoJob
    /\ jobs' = [jobs EXCEPT ![j] =
            [status |-> "pending", progress |-> 0, error |-> "",
             endTime |-> FALSE, result |-> "none", appId |-> appId,
             options |-> options]]
    /\ pc' = [pc EXCEPT ![j] = "created"]
    /\ active' = j
    /\ UNCHANGED <<analysisCache, metadataCache, reviewCache, reviewCount,
                   aborted, now, cancelledInFlight, metrics, calls>>

\* analyzeApp, the cache check finding a fresh entry
AnalyzeAppCached(j) ==
    /\ UNCHANGED nonJobVars
    /\ active = j
    /\ pc[j] = "created"
    /\ LET key == generateCacheKey(jobs[j].appId, jobs[j].options) IN
        /\ jobs[j].options.cacheEnabled
        /\ Fresh(analysisCache, key)
        /\ jobs' = [jobs EXCEPT ![j] =
                [@ EXCEPT !.status = "completed", !.progress = 100,
                          !.endTime = TRUE,
                          !.result = analysisCache[key].data]]
    /\ pc' = [pc EXCEPT ![j] = "done"]
    /\ active' = 0
    /\ metrics' = Counted(metrics, TRUE)
    /\ UNCHANGED <<analysisCache, metadataCache, reviewCache, reviewCount,
                   aborted, now, cancelledInFlight, calls>>

\* runAnalysis up to its first await: status fetching, metadata getOrFetch
RunStart(j) ==
    /\ UNCHANGED nonJobVars
    /\ active = j
    /\ pc[j] = "created"
    /\ LET key == generateCacheKey(jobs[j].appId, jobs[j].options) IN
        ~(jobs[j].options.cacheEnabled /\ Fresh(analysisCache, key))
    /\ jobs' = updateJobStatus(jobs, j, "fetching", 10, "")
    /\ pc' = [pc EXCEPT ![j] =
            IF jobs[j].options.cacheEnabled
               /\ Fresh(metadataCache, jobs[j].appId)
            THEN "metaReady" ELSE "metaFetch"]
    /\ active' = 0
    /\ metrics' = Counted(metrics, jobs[j].options.cacheEnabled
                                     /\ Fresh(metadataCache, jobs[j].appId))
    /\ UNCHANGED <<analysisCache, metadataCache, reviewCache, reviewCount,
                   aborted, now, cancelledInFlight, calls>>

\* variant: the error is logged and the job is left as it is
FailedSilently(j, message) ==
    /\ jobs' = jobs
    /\ pc' = [pc EXCEPT ![j] = "done"]
    /\ active' = 0

\* the catch block of runAnalysis
RunFailed(j, message) ==
    /\ jobs' = updateJobStatus(jobs, j, "failed", 0, message)
    /\ pc' = [pc EXCEPT ![j] = "done"]
    /\ active' = 0

\* the metadata fetch settles; on success runAnalysis calls fetchReviews
MetadataDone(j, ok) ==
    /\ UNCHANGED nonJobVars
    /\ active = 0
    /\ pc[j] \in {"metaReady", "metaFetch"}
    /\ pc[j] = "metaReady" => ok
    /\ IF ok
       THEN /\ metadataCache' =
                   IF pc[j] = "metaFetch" /\ jobs[j].options.cacheEnabled
                   THEN [metadataCache EXCEPT ![jobs[j].appId] =
                            Entry("metadata", now)]
                   ELSE metadataCache
            /\ pc' = [pc EXCEPT ![j] =
                   IF jobs[j].options.cacheEnabled
                      /\ Fresh(reviewCache,
                               generateCacheKey(jobs[j].appId, jobs[j].options))
                   THEN "revReady" ELSE "revFetch"]
            /\ reviewCount' =
                   LET key == generateCacheKey(jobs[j].appId, jobs[j].options) IN
                   IF jobs[j].options.cacheEnabled /\ Fresh(reviewCache, key)
                   THEN [reviewCount EXCEPT ![j] = reviewCache[key].data]
                   ELSE reviewCount
            /\ metrics' =
                   Counted(metrics,
                           jobs[j].options.cacheEnabled
                           /\ Fresh(reviewCache,
                                    generateCacheKey(jobs[j].appId,
                                                     jobs[j].options)))
            /\ UNCHANGED <<jobs, active>>
       ELSE /\ RunFailed(j, FetchMessage)
            /\ UNCHANGED <<metadataCache, reviewCount, metrics>>
    /\ UNCHANGED <<analysisCache, reviewCache, aborted, now,
                   cancelledInFlight, calls>>

\* the review fetch settles; on success the abort check and status analyzing
ReviewsDone(j, ok, n) ==
    /\ UNCHANGED nonJobVars
    /\ active = 0
    /\ pc[j] \in {"revReady", "revFetch"}
    /\ pc[j] = "revReady" => ok
    /\ LET key == generateCacheKey(jobs[j].appId, jobs[j].options)
           count == IF pc[j] = "revReady" THEN reviewCount[j] ELSE n
       IN
       IF ok
       THEN /\ reviewCache' =
                   IF pc[j] = "revFetch" /\ jobs[j].options.cacheEnabled
                   THEN [reviewCache EXCEPT ![key] = Entry(n, now)]
                   ELSE reviewCache
            /\ reviewCount' = [reviewCount EXCEPT ![j] = count]
            /\ IF SignalAborted(aborted, j)
               THEN RunFailed(j, AbortMessage)
               ELSE /\ jobs' = updateJobStatus(jobs, j, "analyzing", 30, "")
                    /\ pc' = [pc EXCEPT ![j] = "analyzing"]
                    /\ active' = j
       ELSE /\ RunFailed(j, FetchMessage)
            /\ UNCHANGED <<reviewCache, reviewCount>>
    /\ UNCHANGED <<analysisCache, metadataCache, aborted, now,
                   cancelledInFlight, metrics, calls>>

\* stage 2: the empty-review shortcut, or analyzeReviews then status classifying
Analyze(j) ==
    /\ UNCHANGED nonJobVars
    /\ active = j
    /\ pc[j] = "analyzing"
    /\ IF reviewCount[j] = 0
       THEN /\ jobs' = updateJobStatus(
                   [jobs EXCEPT ![j] = [@ EXCEPT !.result = "empty"]],
                   j, "completed", 100, "")
            /\ pc' = [pc EXCEPT ![j] = "done"]
            /\ active' = 0
       ELSE IF SignalAborted(aborted, j)
       THEN RunFailed(j, AbortMessage)
       ELSE /\ jobs' = updateJobStatus(jobs, j, "classifying", 60, "")
            /\ pc' = [pc EXCEPT ![j] = "classifying"]
            /\ active' = j
    /\ UNCHANGED <<analysisCache, metadataCache, reviewCache, reviewCount,
                   aborted, now, cancelledInFlight, metrics, calls>>

\* stage 3: classifyReviews then status aggregating
Classify(j) ==
    /\ UNCHANGED nonJobVars
    /\ active = j
    /\ pc[j] = "classifying"
    /\ IF SignalAborted(aborted, j)
       THEN RunFailed(j, AbortMessage)
       ELSE /\ jobs' = updateJobStatus(jobs, j, "aggregating", 90, "")
            /\ pc' = [pc EXCEPT ![j] = "aggregating"]
            /\ active' = j
    /\ UNCHANGED <<analysisCache, metadataCache, reviewCache, reviewCount,
                   aborted, now, cancelledInFlight, metrics, calls>>

\* stage 4: aggregateResults, job.result, the cache write, status completed
Aggregate(j) ==
    /\ UNCHANGED nonJobVars
    /\ active = j
    /\ pc[j] = "aggregating"
    /\ LET key == generateCacheKey(jobs[j].appId, jobs[j].options) IN
        /\ jobs' = updateJobStatus(
               [jobs EXCEPT ![j] = [@ EXCEPT !.result = <<"result", j>>]],
               j, "completed", 100, "")
        /\ analysisCache' =
               IF jobs[j].options.cacheEnabled
               THEN [analysisCache EXCEPT ![key] = Entry(<<"result", j>>, now)]
               ELSE analysisCache
    /\ pc' = [pc EXCEPT ![j] = "done"]
    /\ active' = 0
    /\ UNCHANGED <<metadataCache, reviewCache, reviewCount, aborted, now,
                   cancelledInFlight, metrics, calls>>

\* cancelJob(jobId) for a known job: returns true
CancelJob(j) ==
    /\ UNCHANGED nonJobVars
    /\ active = 0
    /\ jobs[j] # NoJob
    /\ jobs' = [jobs EXCEPT ![j] =
            [@ EXCEPT !.status = "failed", !.error = CancelMessage,
                      !.endTime = TRUE]]
    /\ cancelledInFlight' =
            IF pc[j] # "done" THEN cancelledInFlight \cup {j}
            ELSE cancelledInFlight
    /\ UNCHANGED <<pc, active, analysisCache, metadataCache, reviewCache,
                   reviewCount, aborted, now, metrics, calls>>

\* the caller aborts options.abortSignal
Abort(j) ==
    /\ UNCHANGED nonJobVars
    /\ active = 0
    /\ jobs[j] # NoJob
    /\ ~aborted[j]
    /\ aborted' = [aborted EXCEPT ![j] = TRUE]
    /\ UNCHANGED <<jobs, pc, active, analysisCache, metadataCache,
                   reviewCache, reviewCount, now, cancelledInFlight, metrics,
                   calls>>

\* time passes between two handlers
Tick ==
    /\ UNCHANGED nonJobVars
    /\ active = 0
    /\ now < MaxTime
    /\ now' = now + 1
    /\ UNCHANGED <<jobs, pc, active, analysisCache, metadataCache,
                   reviewCache, reviewCount, aborted, cancelledInFlight,
                   metrics, calls>>

Next ==
    \/ \E j \in JobIds, a \in AppIds, o \in OptionBags : AnalyzeApp(j, a, o)
    \/ \E j \in JobIds : AnalyzeAppCached(j)
    \/ \E j \in JobIds : RunStart(j)
    \/ \E j \in JobIds, ok \in BOOLEAN : MetadataDone(j, ok)
    \/ \E j \in JobIds, ok \in BOOLEAN, n \in 0..MaxReviews : ReviewsDone(j, ok, n)
    \/ \E j \in JobIds : Analyze(j)
    \/ \E j \in JobIds : Classify(j)
    \/ \E j \in JobIds : Aggregate(j)
    \/ \E j \in JobIds : CancelJob(j)
    \/ \E j \in JobIds : Abort(j)
    \/ Tick

Spec == Init /\ [][Next]_vars

(***************************************************************************)
(* Claims about the job state machine.                                     *)
(***************************************************************************)

\* one observed change of status respects the forward order
ForwardStep(old, new) ==
    \/ new = old
    \/ /\ ~Terminal(old)
       /\ \/ new = "failed"
          \/ new # "failed" /\ Rank(new) > Rank(old)

\* C1: the status of a job only moves forward along pending -> fetching ->
\* analyzing -> classifying -> aggregating -> completed, or jumps to failed
\* from a non-terminal state; a completed or failed job never changes status.
C1_StatusOnlyMovesForward ==
    [][\A j \in JobIds :
          jobs[j] # NoJob => ForwardStep(jobs[j].status, jobs'[j].status)]_vars

\* C2: a job cancelled while its run was in progress stays failed with the
\* cancellation error, never has a result, and its run writes no entry to
\* the analysis cache.
C2_CancelledJobStaysCancelled ==
    \A j \in cancelledInFlight :
        /\ jobs[j].status = "failed"
        /\ jobs[j].error = CancelMessage
        /\ jobs[j].progress \in {0, 10}
        /\ jobs[j].result = "none"
        /\ \A k \in CacheKeys :
              analysisCache[k].present => analysisCache[k].data # <<"result", j>>

\* const x = value; body(x): the value is computed once
Const(value, Body(_)) == CHOOSE result \in {Body(x) : x \in {value}} : TRUE

(***************************************************************************)
(* Numbers that are not integers: a fraction [num, den] in lowest terms,   *)
(* den > 0.                                                                *)
(***************************************************************************)
RECURSIVE GCD(_, _)
GCD(a, b) == IF b = 0 THEN a ELSE GCD(b, a % b)

Ratio(n, d) == LET g == GCD(n, d) IN [num |-> n \div g, den |-> d \div g]
RatLess(a, b) == a.num * b.den < b.num * a.den
RatAdd(a, b) == Ratio(a.num * b.den + b.num * a.den, a.den * b.den)

(***************************************************************************)
(* AggregationService: time bucketing.                                     *)
(* A Date is a record [y, m, d] with the JavaScript month m in 0..11; the  *)
(* clock is read in UTC, so the local and the ISO calendar day agree.      *)
(***************************************************************************)
FirstNow == 19806
NowSpan == 7
MaxDataPoints == 2
MaxComments == 2

\* DEFAULT_OPTIONS.maxDataPoints
DefaultMaxDataPoints == 12

TimePeriods == {"day", "week", "month", "quarter", "year"}

\* days since 1970-01-01 of the civil date (y, month mm in 1..12, d)
DaysFromCivil(y, mm, d) ==
    LET yy == IF mm <= 2 THEN y - 1 ELSE y
        era == yy \div 400
        yoe == yy - era * 400
        mp == IF mm > 2 THEN mm - 3 ELSE mm + 9
        doy == (153 * mp + 2) \div 5 + d - 1
        doe == yoe * 365 + yoe \div 4 - yoe \div 100 + doy
    IN era * 146097 + doe - 719468

\* the Date of a day number
DateOfDays(z) ==
    LET zz == z + 719468
        era == zz \div 146097
        doe == zz - era * 146097
        yoe == (doe - doe \div 1460 + doe \div 36524 - doe \div 146096) \div 365
        doy == doe - (365 * yoe + yoe \div 4 - yoe \div 100)
        mp == (5 * doy + 2) \div 153
        d == doy - (153 * mp + 2) \div 5 + 1
        mm == IF mp < 10 THEN mp + 3 ELSE mp - 9
        y == yoe + era * 400 + (IF mm <= 2 THEN 1 ELSE 0)
    IN [y |-> y, m |-> mm - 1, d |-> d]

\* new Date(y, m, d): month and day out of range roll over
MakeDate(y, m, d) ==
    DateOfDays(DaysFromCivil(y + (m \div 12), (m % 12) + 1, 1) + d - 1)

DaysOf(date) == DaysFromCivil(date.y, date.m + 1, date.d)

\* Date.prototype.getDay: 0 is Sunday
getDay(date) == (DaysOf(date) + 4) % 7

\* Date.prototype.setDate / setMonth / setFullYear on a copy
setDate(date, d) == MakeDate(date.y, date.m, d)
setMonth(date, m) == MakeDate(date.y, m, date.d)
setFullYear(date, y) == MakeDate(y, date.m, date.d)

\* the period key of a date; the tuple stands for the zero-padded string
formatDate(tp, date) ==
    CASE tp = "day" -> <<date.y, date.m + 1, date.d>>
      [] tp = "week" ->
            LET day == getDay(date)
                diff == date.d - day + (IF day = 0 THEN -6 ELSE 1)
                startOfWeek == setDate(date, diff)
            IN <<startOfWeek.y, startOfWeek.m + 1, startOfWeek.d>>
      [] tp = "month" -> <<date.y, date.m + 1>>
      [] tp = "quarter" -> <<date.y, (date.m \div 3) + 1>>
      [] tp = "year" -> <<date.y>>

\* the date the next (earlier) period is generated from
getNextPeriodStart(tp, date) ==
    CASE tp = "day" -> setDate(date, date.d - 1)
      [] tp = "week" -> setDate(date, date.d - 7)
      [] tp = "month" -> setMonth(date, date.m - 1)
      [] tp = "quarter" -> setMonth(date, date.m - 3)
      [] tp = "year" -> setFullYear(date, date.y - 1)

\* Map.prototype.has / get / set on a sequence of [key, value] in insertion order
MapHas(map, k) == \E i \in 1..Len(map) : map[i].key = k
MapGet(map, k) == map[CHOOSE i \in 1..Len(map) : map[i].key = k].value
MapSet(map, k, v) ==
    IF MapHas(map, k)
    THEN [i \in 1..Len(map) |->
            IF map[i].key = k THEN [key |-> k, value |-> v] ELSE map[i]]
    ELSE Append(map, [key |-> k, value |-> v])

\* the loop that generates the periods, i of maxDataPoints still to go
RECURSIVE GeneratePeriods(_, _, _, _)
GeneratePeriods(tp, currentDate, i, map) ==
    IF i = 0 THEN map
    ELSE GeneratePeriods(tp, getNextPeriodStart(tp, currentDate), i - 1,
                         MapSet(map, formatDate(tp, currentDate), <<>>))

\* [...comments].sort by date, newest first (a stable insertion sort)
RECURSIVE InsertByDate(_, _)
InsertByDate(sorted, c) ==
    IF sorted = <<>> THEN <<c>>
    ELSE IF Head(sorted).date >= c.date
         THEN <<Head(sorted)>> \o InsertByDate(Tail(sorted), c)
         ELSE <<c>> \o sorted

RECURSIVE SortNewestFirst(_)
SortNewestFirst(comments) ==
    IF comments = <<>> THEN <<>>
    ELSE InsertByDate(SortNewestFirst(SubSeq(comments, 1, Len(comments) - 1)),
                      comments[Len(comments)])

\* variant: a comment whose period is not generated lands in the first bucket
PushCommentAnywhere(tp, map, c) ==
    LET periodKey == formatDate(tp, DateOfDays(c.date)) IN
    IF MapHas(map, periodKey)
    THEN MapSet(map, periodKey, Append(MapGet(map, periodKey), c))
    ELSE IF map = <<>> THEN map
         ELSE MapSet(map, map[1].key, Append(map[1].value, c))

\* the body of the grouping loop for one comment
PushComment(tp, map, c) ==
    LET periodKey == formatDate(tp, DateOfDays(c.date)) IN
    IF MapHas(map, periodKey)
    THEN MapSet(map, periodKey, Append(MapGet(map, periodKey), c))
    ELSE map

RECURSIVE GroupLoop(_, _, _)
GroupLoop(tp, map, sortedComments) ==
    IF sortedComments = <<>> THEN map
    ELSE GroupLoop(tp, PushComment(tp, map, Head(sortedComments)),
                   Tail(sortedComments))

groupCommentsByTimePeriod(comments, timePeriod, maxDataPoints, today) ==
    GroupLoop(timePeriod,
              GeneratePeriods(timePeriod, today, maxDataPoints, <<>>),
              SortNewestFirst(comments))

\* string order of two period keys of one granularity
RECURSIVE KeyLess(_, _)
KeyLess(a, b) ==
    /\ a # <<>>
    /\ \/ Head(a) < Head(b)
       \/ Head(a) = Head(b) /\ KeyLess(Tail(a), Tail(b))

\* Array.from(groupedComments.keys()).sort()
SortedPeriods(map) ==
    LET keys == {map[i].key : i \in 1..Len(map)} IN
    [i \in 1..Cardinality(keys) |->
        CHOOSE k \in keys : Cardinality({x \in keys : KeyLess(x, k)}) = i - 1]

RECURSIVE SumScores(_)
SumScores(comments) ==
    IF comments = <<>> THEN 0
    ELSE Head(comments).score + SumScores(Tail(comments))

CountSentiment(comments, s) ==
    Cardinality({i \in 1..Len(comments) : comments[i].sentiment = s})

\* one TrendDataPoint; average is the pair <<sum, total>> (0 when total is 0)
generateTrendDataPoints(groupedComments) ==
    LET sortedPeriods == SortedPeriods(groupedComments) IN
    [i \in 1..Len(sortedPeriods) |->
        LET comments == MapGet(groupedComments, sortedPeriods[i]) IN
        [date |-> sortedPeriods[i],
         positive |-> CountSentiment(comments, "positive"),
         negative |-> CountSentiment(comments, "negative"),
         neutral |-> CountSentiment(comments, "neutral"),
         total |-> Len(comments),
         average |-> IF Len(comments) > 0
                     THEN <<SumScores(comments), Len(comments)>>
                     ELSE <<0, 1>>]]

(***************************************************************************)
(* AggregationService: trends.  Averages and percentages are fractions.    *)
(***************************************************************************)
Zero == Ratio(0, 1)
RatSub(a, b) == Ratio(a.num * b.den - b.num * a.den, a.den * b.den)
RatMul(a, b) == Ratio(a.num * b.num, a.den * b.den)
\* a / b for b > 0
RatDiv(a, b) == Ratio(a.num * b.den, a.den * b.num)

\* the average of a TrendDataPoint as a fraction
AverageOf(point) == Ratio(point.average[1], point.average[2])

RECURSIVE SumAverages(_)
SumAverages(points) ==
    IF points = <<>> THEN Zero
    ELSE RatAdd(AverageOf(Head(points)), SumAverages(Tail(points)))

\* variant: every point of a half weighs the same
PlainAverage(points) == RatDiv(SumAverages(points), Ratio(Len(points), 1))

\* the forEach of analyzeTrend: the sum of point.average * weight, where
\* weight is index + 1 (index counts from 0 in the source, from 1 here)
RECURSIVE WeightedSum(_, _)
WeightedSum(points, index) ==
    IF index > Len(points) THEN Zero
    ELSE RatAdd(RatMul(AverageOf(points[index]), Ratio(index, 1)),
                WeightedSum(points, index + 1))

\* the sum of the weights 1..length
HalfWeightSum(points) == (Len(points) * (Len(points) + 1)) \div 2

\* firstHalfSum / firstHalfWeightSum; a half is never empty here
WeightedAverage(points) ==
    RatDiv(WeightedSum(points, 1), Ratio(HalfWeightSum(points), 1))

analyzeTrend(dataPoints) ==
    IF Len(dataPoints) < 2 THEN [trend |-> "stable", percentChange |-> Zero]
    ELSE
    LET midpoint == Len(dataPoints) \div 2
        firstHalf == SubSeq(dataPoints, 1, midpoint)
        secondHalf == SubSeq(dataPoints, midpoint + 1, Len(dataPoints))
        firstHalfAvg == WeightedAverage(firstHalf)
        secondHalfAvg == WeightedAverage(secondHalf)
        percentChange ==
            IF firstHalfAvg # Zero
            THEN RatMul(RatDiv(RatSub(secondHalfAvg, firstHalfAvg),
                               firstHalfAvg), Ratio(100, 1))
            ELSE Zero
    IN [trend |-> IF RatLess(Ratio(5, 1), percentChange) THEN "improving"
                  ELSE IF RatLess(percentChange, Ratio(-5, 1)) THEN "declining"
                  ELSE "stable",
        percentChange |-> percentChange]

RECURSIVE SumCounts(_)
SumCounts(counts) ==
    IF counts = <<>> THEN 0 ELSE Head(counts) + SumCounts(Tail(counts))

\* secondHalfAvg > firstHalfAvg * 1.2 is 5 * secondHalfAvg > 6 * firstHalfAvg,
\* secondHalfAvg < firstHalfAvg * 0.8 is 5 * secondHalfAvg < 4 * firstHalfAvg
determineTrend(counts) ==
    IF Len(counts) < 2 THEN "stable"
    ELSE
    LET midpoint == Len(counts) \div 2
        firstHalf == SubSeq(counts, 1, midpoint)
        secondHalf == SubSeq(counts, midpoint + 1, Len(counts))
        firstHalfAvg == Ratio(SumCounts(firstHalf), Len(firstHalf))
        secondHalfAvg == Ratio(SumCounts(secondHalf), Len(secondHalf))
    IN IF RatLess(RatMul(firstHalfAvg, Ratio(6, 5)), secondHalfAvg)
       THEN "increasing"
       ELSE IF RatLess(secondHalfAvg, RatMul(firstHalfAvg, Ratio(4, 5)))
       THEN "decreasing"
       ELSE "stable"

determineBugStatus(counts) ==
    IF Len(counts) <= 1 THEN "new"
    ELSE IF counts[1] > 0 /\ \A i \in 2..Len(counts) : counts[i] = 0
    THEN "new"
    ELSE IF determineTrend(counts) = "increasing" THEN "increasing"
    ELSE IF determineTrend(counts) = "decreasing" THEN "decreasing"
    ELSE "recurring"

\* does the list hold the item (Array.prototype.includes)
ListIncludes(list, item) == \E i \in 1..Len(list) : list[i] = item

\* the comments of one period that mention a phrase of the cluster
MentioningFeature(cluster, comments) ==
    SelectSeq(comments,
              LAMBDA c : \E i \in 1..Len(c.featureRequests) :
                             ListIncludes(cluster.requests, c.featureRequests[i]))

MentioningBug(cluster, comments) ==
    SelectSeq(comments,
              LAMBDA c : \E i \in 1..Len(c.bugReports) :
                             ListIncludes(cluster.reports, c.bugReports[i]))

\* sentiment is the pair <<sentimentSum, count>> (0 when count is 0); of a
\* trend the periods and the direction are kept, not the cluster's name
generateFeatureTrends(featureClusters, groupedComments) ==
    LET sortedPeriods == SortedPeriods(groupedComments) IN
    [k \in 1..Len(featureClusters) |->
        LET cluster == featureClusters[k]
            periods ==
                [i \in 1..Len(sortedPeriods) |->
                    LET mentioning ==
                            MentioningFeature(cluster,
                                MapGet(groupedComments, sortedPeriods[i]))
                    IN [date |-> sortedPeriods[i],
                        count |-> Len(mentioning),
                        sentiment |-> IF Len(mentioning) > 0
                                      THEN <<SumScores(mentioning),
                                             Len(mentioning)>>
                                      ELSE <<0, 1>>]]
            counts == [i \in 1..Len(periods) |-> periods[i].count]
        IN [periods |-> periods,
            trend |-> determineTrend(counts)]]

generateBugTrends(bugClusters, groupedComments) ==
    LET sortedPeriods == SortedPeriods(groupedComments) IN
    [k \in 1..Len(bugClusters) |->
        LET cluster == bugClusters[k]
            periods ==
                [i \in 1..Len(sortedPeriods) |->
                    LET mentioning ==
                            MentioningBug(cluster,
                                MapGet(groupedComments, sortedPeriods[i]))
                        highSeverity ==
                            Len(SelectSeq(mentioning,
                                          LAMBDA c : c.severity = "high"))
                        mediumSeverity ==
                            Len(SelectSeq(mentioning,
                                          LAMBDA c : c.severity = "medium"))
                    IN [date |-> sortedPeriods[i],
                        count |-> Len(mentioning),
                        severity |-> IF highSeverity > 0 THEN "high"
                                     ELSE IF mediumSeverity > 0 THEN "medium"
                                     ELSE "low"]]
            counts == [i \in 1..Len(periods) |-> periods[i].count]
        IN [periods |-> periods,
            trend |-> determineTrend(counts),
            status |-> determineBugStatus(counts)]]

(***************************************************************************)
(* AggregationService.generateExportData.  A string is a sequence of       *)
(* characters; an id and a date are written as the decimal digits of the   *)
(* number that stands for them.  The json member is not modelled.          *)
(***************************************************************************)
DigitChars == <<"0", "1", "2", "3", "4", "5", "6", "7", "8", "9">>

\* String(n) of a natural number
RECURSIVE NumberText(_)
NumberText(n) ==
    IF n < 10 THEN <<DigitChars[n + 1]>>
    ELSE NumberText(n \div 10) \o <<DigitChars[(n % 10) + 1]>>

SentimentText ==
    [positive |-> <<"p", "o", "s", "i", "t", "i", "v", "e">>,
     negative |-> <<"n", "e", "g", "a", "t", "i", "v", "e">>,
     neutral |-> <<"n", "e", "u", "t", "r", "a", "l">>]

\* Array.prototype.join
RECURSIVE JoinWith(_, _)
JoinWith(parts, separator) ==
    IF parts = <<>> THEN <<>>
    ELSE IF Len(parts) = 1 THEN parts[1]
    ELSE parts[1] \o separator \o JoinWith(Tail(parts), separator)

\* content.replace(/"/g, '""').replace(/,/g, '","')
RECURSIVE EscapeContent(_)
EscapeContent(content) ==
    IF content = <<>> THEN <<>>
    ELSE (IF Head(content) = "\"" THEN <<"\"", "\"">>
          ELSE IF Head(content) = "," THEN <<"\"", ",", "\"">>
          ELSE <<Head(content)>>) \o EscapeContent(Tail(content))

Quoted(text) == <<"\"">> \o text \o <<"\"">>

csvHeader ==
    JoinWith(<<<<"I", "D">>, <<"U", "s", "e", "r">>, <<"D", "a", "t", "e">>,
               <<"S", "c", "o", "r", "e">>,
               <<"S", "e", "n", "t", "i", "m", "e", "n", "t">>,
               <<"C", "o", "n", "t", "e", "n", "t">>,
               <<"I", "n", "t", "e", "n", "t", "i", "o", "n", "s">>,
               <<"K", "e", "y", "w", "o", "r", "d", "s">>>>, <<",">>)
        \o <<"\n">>

\* one element of csvRows
CsvRow(comment) ==
    JoinWith(<<Quoted(NumberText(comment.id)), Quoted(comment.userName),
               Quoted(NumberText(comment.date)), NumberText(comment.score),
               Quoted(SentimentText[comment.sentiment]),
               Quoted(EscapeContent(comment.content)),
               Quoted(JoinWith(comment.intentions, <<";">>)),
               Quoted(JoinWith(comment.keywords, <<";">>))>>, <<",">>)

generateExportData(comments, analysis, classification) ==
    [csv |-> csvHeader
               \o JoinWith([i \in 1..Len(comments) |-> CsvRow(comments[i])],
                           <<"\n">>)]

(***************************************************************************)
(* AggregationService: distributions and insights.                         *)
(***************************************************************************)
DefaultMaxInsights == 10
DefaultMaxFeatures == 5
DefaultMaxBugs == 5

\* array.slice(0, n); a negative n counts from the end
Take(list, n) ==
    SubSeq(list, 1, IF n < 0 THEN Len(list) + n
                    ELSE IF n < Len(list) THEN n ELSE Len(list))

\* Math.min(Math.max(Math.round(score), 1), 5) of an integer score
ValidRating(score) == IF score < 1 THEN 1 ELSE IF score > 5 THEN 5 ELSE score

\* average is the pair <<sum, total>> (0 when there is no comment)
calculateRatingDistribution(comments) ==
    [stars |-> [r \in 1..5 |->
                   Cardinality({i \in 1..Len(comments) :
                                   ValidRating(comments[i].score) = r})],
     average |-> IF Len(comments) > 0
                 THEN <<SumScores(comments), Len(comments)>>
                 ELSE <<0, 1>>,
     total |-> Len(comments)]

CountUserType(comments, types) ==
    Cardinality({i \in 1..Len(comments) : comments[i].userType \in types})

calculateUserSegmentDistribution(comments) ==
    [newUsers |-> CountUserType(comments, {"new"}),
     powerUsers |-> CountUserType(comments, {"power"}),
     returningUsers |-> CountUserType(comments, {"returning"}),
     unknownUsers |-> Len(comments)
                        - CountUserType(comments, {"new", "power", "returning"}),
     total |-> Len(comments)]

RatAbs(a) == IF a.num < 0 THEN Ratio(-a.num, a.den) ELSE a

priorityOrder == [high |-> 0, medium |-> 1, low |-> 2]

\* Array.prototype.sort with the priorityOrder comparator: a stable
\* insertion sort
RECURSIVE InsertByPriority(_, _)
InsertByPriority(sorted, insight) ==
    IF sorted = <<>> THEN <<insight>>
    ELSE IF priorityOrder[Head(sorted).priority]
              <= priorityOrder[insight.priority]
         THEN <<Head(sorted)>> \o InsertByPriority(Tail(sorted), insight)
         ELSE <<insight>> \o sorted

RECURSIVE SortByPriority(_)
SortByPriority(insights) ==
    IF insights = <<>> THEN <<>>
    ELSE InsertByPriority(SortByPriority(SubSeq(insights, 1, Len(insights) - 1)),
                          insights[Len(insights)])

\* the insights pushed before the sort, in push order; of an Insight the
\* id, type and priority are kept (the texts depend on nothing else)
PushedInsights(analysis, classification, trendAnalysis) ==
    LET features == Take(classification.topFeatureRequests, 3)
        bugs == Take(classification.criticalBugs, 3)
        competitors == Take(classification.competitorAnalysis, 2)
        newUsers == Len(analysis.userSegments.newUsers)
        powerUsers == Len(analysis.userSegments.powerUsers)
    IN (IF trendAnalysis.trend # "stable"
        THEN <<[id |-> "sentiment-trend", type |-> "sentiment",
                priority |-> IF RatLess(Ratio(15, 1),
                                        RatAbs(trendAnalysis.percentChange))
                             THEN "high" ELSE "medium"]>>
        ELSE <<>>)
       \o [i \in 1..Len(features) |->
              [id |-> "feature-" \o ToString(i - 1), type |-> "feature",
               priority |-> features[i].priority]]
       \o [i \in 1..Len(bugs) |->
              [id |-> "bug-" \o ToString(i - 1), type |-> "bug",
               priority |-> "high"]]
       \o SelectSeq([i \in 1..Len(competitors) |->
                        [id |-> "competitor-" \o ToString(i - 1),
                         type |-> "competitor",
                         mentions |-> competitors[i].mentions,
                         priority |-> IF competitors[i].mentions > 20
                                      THEN "high" ELSE "medium"]],
                    LAMBDA insight : insight.mentions >= 5)
       \o (IF newUsers > powerUsers * 2
           THEN <<[id |-> "user-new", type |-> "user", priority |-> "medium"]>>
           ELSE IF powerUsers > newUsers * 2
           THEN <<[id |-> "user-power", type |-> "user",
                   priority |-> "medium"]>>
           ELSE <<>>)

\* variant: the list is cut before it is sorted
generateInsightsCutFirst(analysis, classification, trendAnalysis, maxInsights) ==
    SortByPriority(Take(PushedInsights(analysis, classification, trendAnalysis),
                        maxInsights))

generateInsights(analysis, classification, trendAnalysis, maxInsights) ==
    Take(SortByPriority(PushedInsights(analysis, classification,
                                       trendAnalysis)),
         maxInsights)

\* x || d for a number x
OrDefault(x, d) == IF x = 0 THEN d ELSE x

\* aggregateResults once the comments are grouped.  Of the export the csv is
\* kept, of a competitor insight the competitor, mentions and sentiment.
aggregateResultsFrom(comments, analysis, classification, options, grouped) ==
    LET timePeriod == options.timePeriod
        trendDataPoints == generateTrendDataPoints(grouped)
        overall == analyzeTrend(trendDataPoints)
        featureTrends ==
            generateFeatureTrends(classification.topFeatureRequests,
                                  grouped)
        bugTrends ==
            generateBugTrends(classification.criticalBugs, grouped)
        ratingDistribution == calculateRatingDistribution(comments)
        userSegmentDistribution == calculateUserSegmentDistribution(comments)
        trendAnalysis == [timePeriod |-> timePeriod,
                          dataPoints |-> trendDataPoints,
                          trend |-> overall.trend,
                          percentChange |-> overall.percentChange]
        insights ==
            generateInsights(analysis, classification, trendAnalysis,
                             OrDefault(options.maxInsights, DefaultMaxInsights))
        exportData == IF options.includeExportData
                      THEN generateExportData(comments, analysis, classification)
                      ELSE [csv |-> <<>>]
        competitorInsights ==
            [i \in 1..Len(classification.competitorAnalysis) |->
                [competitor |-> classification.competitorAnalysis[i].competitor,
                 mentions |-> classification.competitorAnalysis[i].mentions,
                 sentiment |-> classification.competitorAnalysis[i].sentiment]]
        maxFeatures == OrDefault(options.maxFeatures, DefaultMaxFeatures)
        maxBugs == OrDefault(options.maxBugs, DefaultMaxBugs)
    IN [done |-> TRUE,
        groupedComments |-> grouped,
        summary |-> [totalReviews |-> Len(comments),
                     averageRating |-> ratingDistribution.average,
                     ratingDistribution |-> ratingDistribution,
                     sentimentDistribution |->
                         [positive |-> analysis.sentiment.positive,
                          negative |-> analysis.sentiment.negative,
                          neutral |-> analysis.sentiment.neutral],
                     userSegmentDistribution |-> userSegmentDistribution],
        trends |-> [overall |-> trendAnalysis,
                    features |-> Take(featureTrends, maxFeatures),
                    bugs |-> Take(bugTrends, maxBugs)],
        topFeatures |-> Take(classification.topFeatureRequests, maxFeatures),
        criticalBugs |-> Take(classification.criticalBugs, maxBugs),
        competitorInsights |-> competitorInsights,
        insights |-> insights,
        exportData |-> exportData]

aggregateResults(comments, analysis, classification, options, today) ==
    Const(groupCommentsByTimePeriod(comments, options.timePeriod,
                                    OrDefault(options.maxDataPoints,
                                              DefaultMaxDataPoints),
                                    today),
          LAMBDA groupedComments :
              aggregateResultsFrom(comments, analysis, classification, options,
                                   groupedComments))

(***************************************************************************)
(* The inputs of the aggregation model.                                    *)
(***************************************************************************)
NowDays == FirstNow..(FirstNow + NowSpan)
CommentOffsets == {0, 8, 40}
CommentKinds == {[sentiment |-> "positive", score |-> 5],
                 [sentiment |-> "negative", score |-> 1]}

Anonymous == <<"A", "n", "o", "n", "y", "m", "o", "u", "s">>

\* the fields of an AnalyzedComment that a run does not vary
PlainFields ==
    [userName |-> Anonymous, content |-> <<>>, intentions |-> <<>>,
     keywords |-> <<>>, featureRequests |-> <<>>, bugReports |-> <<>>,
     severity |-> "low", userType |-> "unknown"]

\* the AnalysisResult and ClassificationResult of a run without findings
NoAnalysis ==
    [keywords |-> <<>>,
     sentiment |-> [positive |-> 0, negative |-> 0, neutral |-> 0],
     userSegments |-> [newUsers |-> <<>>, powerUsers |-> <<>>]]
NoFindings == [topFeatureRequests |-> <<>>, criticalBugs |-> <<>>,
               competitorAnalysis |-> <<>>]

\* analyzed comments dated at most 40 days before today, ids 1..n
CommentLists(today) ==
    UNION {[1..n -> {[date |-> today - o, sentiment |-> k.sentiment,
                      score |-> k.score, userName |-> PlainFields.userName,
                      content |-> PlainFields.content,
                      intentions |-> PlainFields.intentions,
                      keywords |-> PlainFields.keywords] :
                     o \in CommentOffsets, k \in CommentKinds}] :
           n \in 0..MaxComments}

WithIds(list) ==
    [i \in 1..Len(list) |->
        [id |-> i, date |-> list[i].date, sentiment |-> list[i].sentiment,
         score |-> list[i].score, userName |-> list[i].userName,
         content |-> list[i].content, intentions |-> list[i].intentions,
         keywords |-> list[i].keywords,
         featureRequests |-> PlainFields.featureRequests,
         bugReports |-> PlainFields.bugReports,
         severity |-> PlainFields.severity,
         userType |-> PlainFields.userType]]

AggInit ==
    /\ JobIdle /\ TxtIdle /\ ClsIdle
    /\ \E today \in NowDays, tp \in TimePeriods, n \in 0..MaxDataPoints :
        \E list \in CommentLists(today) :
            aggIn = [idle |-> FALSE, now |-> today,
                     options |-> [timePeriod |-> tp, maxDataPoints |-> n,
                                  includeExportData |-> FALSE,
                                  maxInsights |-> 0, maxFeatures |-> 0,
                                  maxBugs |-> 0],
                     analysis |-> NoAnalysis, classification |-> NoFindings,
                     comments |-> WithIds(list)]
    /\ aggOut = NoResult

AggregateResults ==
    /\ aggOut = NoResult
    /\ aggOut' = aggregateResults(aggIn.comments, aggIn.analysis,
                                  aggIn.classification, aggIn.options,
                                  DateOfDays(aggIn.now))
    /\ UNCHANGED <<aggIn, jobVars, txtVars, clsVars>>

AggNext == AggregateResults

SpecAgg == AggInit /\ [][AggNext]_vars

(***************************************************************************)
(* Claims about the trend buckets.                                         *)
(***************************************************************************)
DataPoints == aggOut.trends.overall.dataPoints

\* C3: for every granularity, every date taken as now and every
\* maxDataPoints >= 1, the overall trend has exactly maxDataPoints data
\* points with pairwise distinct period keys.
C3_ExactlyMaxDataPointsBuckets ==
    (aggOut.done /\ aggIn.options.maxDataPoints >= 1) =>
        /\ Len(DataPoints) = aggIn.options.maxDataPoints
        /\ \A i, k \in 1..Len(DataPoints) :
              i # k => DataPoints[i].date # DataPoints[k].date

\* the buckets (positions of the grouped map) that hold comment id
BucketsOf(id) ==
    {b \in 1..Len(aggOut.groupedComments) :
        \E x \in 1..Len(aggOut.groupedComments[b].value) :
            aggOut.groupedComments[b].value[x].id = id}

RECURSIVE SumTotals(_)
SumTotals(points) ==
    IF points = <<>> THEN 0 ELSE Head(points).total + SumTotals(Tail(points))

\* C4: each comment is counted in at most one trend bucket, the one whose
\* key is the period key of its timestamp, and in none when that key is not
\* among the generated buckets; the bucket totals sum to at most
\* summary.totalReviews, which equals the number of input comments.
C4_EachCommentInAtMostOneBucket ==
    aggOut.done =>
        /\ \A i \in 1..Len(aggIn.comments) :
            LET c == aggIn.comments[i]
                key == formatDate(aggIn.options.timePeriod, DateOfDays(c.date))
            IN /\ Cardinality(BucketsOf(c.id)) <= 1
               /\ \A b \in BucketsOf(c.id) :
                     /\ aggOut.groupedComments[b].key = key
                     /\ Cardinality({x \in 1..Len(aggOut.groupedComments[b].value) :
                            aggOut.groupedComments[b].value[x].id = c.id}) = 1
               /\ (~ \E p \in 1..Len(DataPoints) : DataPoints[p].date = key)
                     => BucketsOf(c.id) = {}
        /\ \A p \in 1..Len(DataPoints) :
              DataPoints[p].total =
                  Cardinality({i \in 1..Len(aggIn.comments) :
                      \E b \in BucketsOf(aggIn.comments[i].id) :
                          aggOut.groupedComments[b].key = DataPoints[p].date})
        /\ SumTotals(DataPoints) <= aggOut.summary.totalReviews
        /\ aggOut.summary.totalReviews = Len(aggIn.comments)

\* witness of C4: a run with one comment inside and one outside the window
C4_Witness ==
    /\ aggOut.done
    /\ Len(aggIn.comments) = 2
    /\ SumTotals(DataPoints) = 1
    /\ aggOut.summary.totalReviews = 2

(***************************************************************************)
(* The CSV export of review texts with quotes, commas and line breaks.     *)
(***************************************************************************)
Ann == <<"A", "n", "n">>
QuoteName == <<"J", "\"", "o">>
ExportNames == {Ann, QuoteName}
ExportContents == {<<"o", "k">>, <<"a", ",", "b">>, <<"x", "\"", "y">>,
                   <<"p", "\n", "q">>}

ExportInit ==
    /\ JobIdle /\ TxtIdle /\ ClsIdle
    /\ \E today \in NowDays, n \in 0..MaxComments :
        \E list \in [1..n -> [date : {today}, sentiment : {"positive"},
                              score : {5}, userName : ExportNames,
                              content : ExportContents,
                              intentions : {<<>>, <<<<"p", "r", "a", "i", "s", "e">>>>},
                              keywords : {<<>>}]] :
            aggIn = [idle |-> FALSE, now |-> today,
                     options |-> [timePeriod |-> "week", maxDataPoints |-> 1,
                                  includeExportData |-> TRUE,
                                  maxInsights |-> 0, maxFeatures |-> 0,
                                  maxBugs |-> 0],
                     analysis |-> NoAnalysis, classification |-> NoFindings,
                     comments |-> WithIds(list)]
    /\ aggOut = NoResult

SpecExport == ExportInit /\ [][AggNext]_vars

\* a CSV reader: the records of a text end at the line breaks outside
\* quoted fields, a line break inside a quoted field belonging to the field
RecordBreaks(text) ==
    {i \in 1..Len(text) :
        /\ text[i] = "\n"
        /\ Cardinality({j \in 1..(i - 1) : text[j] = "\""}) % 2 = 0}

SplitRecords(text) ==
    LET breaks == RecordBreaks(text) \cup {Len(text) + 1}
        Nth(k) == CHOOSE b \in breaks :
                     Cardinality({x \in breaks : x < b}) = k - 1
    IN [k \in 1..Cardinality(breaks) |->
           SubSeq(text, IF k = 1 THEN 1 ELSE Nth(k - 1) + 1, Nth(k) - 1)]

\* the records after the header line; an empty last line is no record
DataRows(csv) ==
    LET records == Tail(SplitRecords(csv))
    IN IF records # <<>> /\ records[Len(records)] = <<>>
       THEN SubSeq(records, 1, Len(records) - 1)
       ELSE records

\* C11: with export enabled the CSV text read back is the header line
\* followed by exactly one record per input comment, in input order: the
\* record count is the comment count, none dropped, none duplicated.
C11_CsvHasOneRowPerComment ==
    (aggOut.done /\ aggIn.options.includeExportData) =>
        LET rows == DataRows(aggOut.exportData.csv) IN
        /\ Len(rows) = Len(aggIn.comments)
        /\ \A i \in 1..Len(rows) : rows[i] = CsvRow(aggIn.comments[i])

(***************************************************************************)
(* ReviewAnalysisService.  A string is a sequence of one-character         *)
(* strings, so that case folding, tokenizing and substring search are      *)
(* computed character by character as String.prototype does.               *)
(***************************************************************************)
UpperCase == <<"A", "B", "C", "D", "E", "F", "G", "H", "I", "J", "K", "L", "M",
               "N", "O", "P", "Q", "R", "S", "T", "U", "V", "W", "X", "Y", "Z">>
LowerCase == <<"a", "b", "c", "d", "e", "f", "g", "h", "i", "j", "k", "l", "m",
               "n", "o", "p", "q", "r", "s", "t", "u", "v", "w", "x", "y", "z">>
Digits == {"0", "1", "2", "3", "4", "5", "6", "7", "8", "9"}

\* \w and \s of the regular expressions
IsWordChar(c) ==
    \/ \E k \in 1..26 : c = UpperCase[k] \/ c = LowerCase[k]
    \/ c \in Digits
    \/ c = "_"
IsSpace(c) == c = " "

\* String.prototype.toLowerCase
LowerOf == [c \in {UpperCase[k] : k \in 1..26} |->
               LowerCase[CHOOSE k \in 1..26 : c = UpperCase[k]]]
toLowerCase(text) ==
    [i \in 1..Len(text) |->
        IF text[i] \in DOMAIN LowerOf THEN LowerOf[text[i]] ELSE text[i]]

\* String.prototype.includes
Includes(text, pattern) ==
    \E i \in 0..(Len(text) - Len(pattern)) :
        SubSeq(text, i + 1, i + Len(pattern)) = pattern

\* split(/\s+/) followed by filter(token => token.length > 0)
RECURSIVE SplitOnSpace(_, _, _)
SplitOnSpace(text, current, tokens) ==
    IF text = <<>>
    THEN IF current = <<>> THEN tokens ELSE Append(tokens, current)
    ELSE IF IsSpace(Head(text))
         THEN SplitOnSpace(Tail(text), <<>>,
                  IF current = <<>> THEN tokens ELSE Append(tokens, current))
         ELSE SplitOnSpace(Tail(text), Append(current, Head(text)), tokens)

\* tokenize: lower case, [^\w\s] replaced by a space, split on white space
tokenize(text) ==
    LET lower == toLowerCase(text)
        replaced == [i \in 1..Len(lower) |->
                        IF IsWordChar(lower[i]) \/ IsSpace(lower[i])
                        THEN lower[i] ELSE " "]
    IN SplitOnSpace(replaced, <<>>, <<>>)

\* SENTIMENT_LEXICON: word -> weight
SENTIMENT_LEXICON == {
    [word |-> <<"g", "o", "o", "d">>, weight |-> 3],
    [word |-> <<"g", "r", "e", "a", "t">>, weight |-> 4],
    [word |-> <<"a", "w", "e", "s", "o", "m", "e">>, weight |-> 5],
    [word |-> <<"e", "x", "c", "e", "l", "l", "e", "n", "t">>, weight |-> 5],
    [word |-> <<"a", "m", "a", "z", "i", "n", "g">>, weight |-> 5],
    [word |-> <<"l", "o", "v", "e">>, weight |-> 4],
    [word |-> <<"p", "e", "r", "f", "e", "c", "t">>, weight |-> 5],
    [word |-> <<"b", "e", "s", "t">>, weight |-> 5],
    [word |-> <<"h", "e", "l", "p", "f", "u", "l">>, weight |-> 3],
    [word |-> <<"f", "a", "n", "t", "a", "s", "t", "i", "c">>, weight |-> 5],
    [word |-> <<"w", "o", "n", "d", "e", "r", "f", "u", "l">>, weight |-> 4],
    [word |-> <<"s", "u", "p", "e", "r", "b">>, weight |-> 5],
    [word |-> <<"b", "r", "i", "l", "l", "i", "a", "n", "t">>, weight |-> 5],
    [word |-> <<"o", "u", "t", "s", "t", "a", "n", "d", "i", "n", "g">>, weight |-> 5],
    [word |-> <<"e", "a", "s", "y">>, weight |-> 2],
    [word |-> <<"n", "i", "c", "e">>, weight |-> 3],
    [word |-> <<"b", "e", "t", "t", "e", "r">>, weight |-> 2],
    [word |-> <<"r", "e", "c", "o", "m", "m", "e", "n", "d">>, weight |-> 4],
    [word |-> <<"w", "o", "r", "t", "h">>, weight |-> 3],
    [word |-> <<"b", "e", "a", "u", "t", "i", "f", "u", "l">>, weight |-> 3],
    [word |-> <<"f", "a", "s", "t">>, weight |-> 2],
    [word |-> <<"s", "i", "m", "p", "l", "e">>, weight |-> 2],
    [word |-> <<"c", "l", "e", "a", "n">>, weight |-> 2],
    [word |-> <<"u", "s", "e", "f", "u", "l">>, weight |-> 3],
    [word |-> <<"h", "a", "p", "p", "y">>, weight |-> 3],
    [word |-> <<"e", "n", "j", "o", "y">>, weight |-> 3],
    [word |-> <<"f", "u", "n">>, weight |-> 3],
    [word |-> <<"c", "o", "o", "l">>, weight |-> 3],
    [word |-> <<"i", "m", "p", "r", "e", "s", "s", "i", "v", "e">>, weight |-> 4],
    [word |-> <<"s", "m", "o", "o", "t", "h">>, weight |-> 3],
    [word |-> <<"i", "n", "t", "u", "i", "t", "i", "v", "e">>, weight |-> 3],
    [word |-> <<"c", "o", "n", "v", "e", "n", "i", "e", "n", "t">>, weight |-> 3],
    [word |-> <<"r", "e", "l", "i", "a", "b", "l", "e">>, weight |-> 3],
    [word |-> <<"b", "a", "d">>, weight |-> -3],
    [word |-> <<"p", "o", "o", "r">>, weight |-> -3],
    [word |-> <<"t", "e", "r", "r", "i", "b", "l", "e">>, weight |-> -5],
    [word |-> <<"a", "w", "f", "u", "l">>, weight |-> -5],
    [word |-> <<"h", "o", "r", "r", "i", "b", "l", "e">>, weight |-> -5],
    [word |-> <<"w", "o", "r", "s", "t">>, weight |-> -5],
    [word |-> <<"w", "a", "s", "t", "e">>, weight |-> -3],
    [word |-> <<"u", "s", "e", "l", "e", "s", "s">>, weight |-> -3],
    [word |-> <<"d", "i", "s", "a", "p", "p", "o", "i", "n", "t", "e", "d">>, weight |-> -4],
    [word |-> <<"f", "r", "u", "s", "t", "r", "a", "t", "i", "n", "g">>, weight |-> -4],
    [word |-> <<"a", "n", "n", "o", "y", "i", "n", "g">>, weight |-> -3],
    [word |-> <<"s", "l", "o", "w">>, weight |-> -2],
    [word |-> <<"c", "r", "a", "s", "h">>, weight |-> -4],
    [word |-> <<"b", "u", "g">>, weight |-> -3],
    [word |-> <<"e", "r", "r", "o", "r">>, weight |-> -3],
    [word |-> <<"i", "s", "s", "u", "e">>, weight |-> -2],
    [word |-> <<"p", "r", "o", "b", "l", "e", "m">>, weight |-> -2],
    [word |-> <<"d", "i", "f", "f", "i", "c", "u", "l", "t">>, weight |-> -2],
    [word |-> <<"c", "o", "n", "f", "u", "s", "i", "n", "g">>, weight |-> -3],
    [word |-> <<"e", "x", "p", "e", "n", "s", "i", "v", "e">>, weight |-> -2],
    [word |-> <<"h", "a", "t", "e">>, weight |-> -4],
    [word |-> <<"b", "o", "r", "i", "n", "g">>, weight |-> -3],
    [word |-> <<"u", "g", "l", "y">>, weight |-> -3],
    [word |-> <<"c", "o", "m", "p", "l", "i", "c", "a", "t", "e", "d">>, weight |-> -3],
    [word |-> <<"b", "r", "o", "k", "e", "n">>, weight |-> -4],
    [word |-> <<"f", "a", "i", "l">>, weight |-> -3],
    [word |-> <<"f", "a", "i", "l", "s">>, weight |-> -3],
    [word |-> <<"f", "a", "i", "l", "e", "d">>, weight |-> -3],
    [word |-> <<"f", "a", "i", "l", "u", "r", "e">>, weight |-> -3],
    [word |-> <<"g", "l", "i", "t", "c", "h">>, weight |-> -3],
    [word |-> <<"s", "t", "u", "c", "k">>, weight |-> -3],
    [word |-> <<"f", "r", "e", "e", "z", "e", "s">>, weight |-> -3],
    [word |-> <<"f", "r", "e", "e", "z", "e">>, weight |-> -3],
    [word |-> <<"f", "r", "o", "z", "e">>, weight |-> -3],
    [word |-> <<"l", "a", "g", "g", "y">>, weight |-> -3],
    [word |-> <<"l", "a", "g">>, weight |-> -3],
    [word |-> <<"l", "a", "g", "s">>, weight |-> -3],
    [word |-> <<"a", "d", "s">>, weight |-> -2],
    [word |-> <<"a", "d", "v", "e", "r", "t", "i", "s", "e", "m", "e", "n", "t">>, weight |-> -2]}

\* detectIntentions: patterns, in the order of Object.entries
IntentionPatterns == <<
    [intention |-> "feature_request", keywords |-> {
        <<"a", "d", "d">>,
        <<"w", "o", "u", "l", "d", " ", "b", "e", " ", "n", "i", "c", "e">>,
        <<"s", "h", "o", "u", "l", "d", " ", "h", "a", "v", "e">>,
        <<"n", "e", "e", "d">>, <<"m", "i", "s", "s", "i", "n", "g">>,
        <<"p", "l", "e", "a", "s", "e", " ", "a", "d", "d">>,
        <<"w", "o", "u", "l", "d", " ", "l", "o", "v", "e">>,
        <<"w", "i", "s", "h", " ", "i", "t", " ", "h", "a", "d">>,
        <<"c", "o", "u", "l", "d", " ", "u", "s", "e">>,
        <<"h", "o", "p", "e", " ", "y", "o", "u", " ", "a", "d", "d">>,
        <<"s", "u", "g", "g", "e", "s", "t", "i", "o", "n">>,
        <<"f", "e", "a", "t", "u", "r", "e", " ", "r", "e", "q", "u", "e", "s", "t">>,
        <<"w", "o", "u", "l", "d", " ", "b", "e", " ", "g", "r", "e", "a", "t", " ", "i", "f">>,
        <<"p", "l", "e", "a", "s", "e", " ", "i", "m", "p", "l", "e", "m", "e", "n", "t">>,
        <<"c", "o", "n", "s", "i", "d", "e", "r", " ", "a", "d", "d", "i", "n", "g">>}],
    [intention |-> "bug_report", keywords |-> {
        <<"b", "u", "g">>, <<"c", "r", "a", "s", "h">>,
        <<"e", "r", "r", "o", "r">>, <<"i", "s", "s", "u", "e">>,
        <<"p", "r", "o", "b", "l", "e", "m">>,
        <<"n", "o", "t", " ", "w", "o", "r", "k", "i", "n", "g">>,
        <<"f", "i", "x">>, <<"b", "r", "o", "k", "e", "n">>,
        <<"g", "l", "i", "t", "c", "h">>,
        <<"f", "r", "e", "e", "z", "e", "s">>, <<"s", "t", "u", "c", "k">>,
        <<"d", "o", "e", "s", "n", "'", "t", " ", "w", "o", "r", "k">>,
        <<"f", "a", "i", "l", "s">>,
        <<"d", "o", "e", "s", "n", "'", "t", " ", "l", "o", "a", "d">>,
        <<"f", "o", "r", "c", "e", " ", "c", "l", "o", "s", "e">>,
        <<"k", "e", "e", "p", "s", " ", "s", "t", "o", "p", "p", "i", "n", "g">>,
        <<"w", "o", "n", "'", "t", " ", "o", "p", "e", "n">>}],
    [intention |-> "praise", keywords |-> {
        <<"g", "r", "e", "a", "t">>, <<"a", "w", "e", "s", "o", "m", "e">>,
        <<"l", "o", "v", "e">>,
        <<"e", "x", "c", "e", "l", "l", "e", "n", "t">>,
        <<"p", "e", "r", "f", "e", "c", "t">>,
        <<"a", "m", "a", "z", "i", "n", "g">>,
        <<"f", "a", "n", "t", "a", "s", "t", "i", "c">>,
        <<"w", "o", "n", "d", "e", "r", "f", "u", "l">>,
        <<"b", "e", "s", "t">>, <<"g", "o", "o", "d">>,
        <<"h", "e", "l", "p", "f", "u", "l">>,
        <<"u", "s", "e", "f", "u", "l">>,
        <<"i", "m", "p", "r", "e", "s", "s", "i", "v", "e">>,
        <<"o", "u", "t", "s", "t", "a", "n", "d", "i", "n", "g">>,
        <<"s", "u", "p", "e", "r", "b">>,
        <<"b", "r", "i", "l", "l", "i", "a", "n", "t">>,
        <<"t", "e", "r", "r", "i", "f", "i", "c">>}],
    [intention |-> "complaint", keywords |-> {
        <<"b", "a", "d">>, <<"t", "e", "r", "r", "i", "b", "l", "e">>,
        <<"p", "o", "o", "r">>, <<"w", "a", "s", "t", "e">>,
        <<"d", "i", "s", "a", "p", "p", "o", "i", "n", "t", "e", "d">>,
        <<"a", "w", "f", "u", "l">>,
        <<"h", "o", "r", "r", "i", "b", "l", "e">>,
        <<"u", "s", "e", "l", "e", "s", "s">>,
        <<"f", "r", "u", "s", "t", "r", "a", "t", "i", "n", "g">>,
        <<"a", "n", "n", "o", "y", "i", "n", "g">>,
        <<"w", "o", "r", "s", "t">>, <<"h", "a", "t", "e">>,
        <<"s", "u", "c", "k", "s">>, <<"g", "a", "r", "b", "a", "g", "e">>,
        <<"r", "u", "b", "b", "i", "s", "h">>,
        <<"p", "a", "t", "h", "e", "t", "i", "c">>, <<"j", "o", "k", "e">>}],
    [intention |-> "question", keywords |-> {
        <<"h", "o", "w", " ", "d", "o", " ", "i">>,
        <<"h", "o", "w", " ", "t", "o">>,
        <<"c", "a", "n", " ", "y", "o", "u">>,
        <<"i", "s", " ", "t", "h", "e", "r", "e">>,
        <<"d", "o", "e", "s", " ", "i", "t">>,
        <<"w", "i", "l", "l", " ", "i", "t">>,
        <<"w", "h", "e", "n", " ", "w", "i", "l", "l">>,
        <<"w", "h", "y", " ", "i", "s">>,
        <<"w", "h", "e", "r", "e", " ", "i", "s">>,
        <<"w", "h", "a", "t", " ", "i", "s">>, <<"?">>}],
    [intention |-> "comparison", keywords |-> {
        <<"b", "e", "t", "t", "e", "r", " ", "t", "h", "a", "n">>,
        <<"w", "o", "r", "s", "e", " ", "t", "h", "a", "n">>,
        <<"c", "o", "m", "p", "a", "r", "e", "d", " ", "t", "o">>,
        <<"s", "i", "m", "i", "l", "a", "r", " ", "t", "o">>,
        <<"l", "i", "k", "e">>, <<"u", "n", "l", "i", "k", "e">>,
        <<"p", "r", "e", "f", "e", "r", "r", "e", "d">>,
        <<"i", "n", "s", "t", "e", "a", "d", " ", "o", "f">>,
        <<"a", "l", "t", "e", "r", "n", "a", "t", "i", "v", "e">>,
        <<"c", "o", "m", "p", "e", "t", "i", "t", "o", "r">>,
        <<"c", "o", "m", "p", "e", "t", "i", "t", "i", "o", "n">>,
        <<"o", "t", "h", "e", "r", " ", "a", "p", "p", "s">>,
        <<"o", "t", "h", "e", "r", " ", "g", "a", "m", "e", "s">>,
        <<"r", "i", "v", "a", "l", "s">>}]>>

\* property names every object literal inherits from Object.prototype that
\* a lower-cased token can spell
InheritedKeys == {<<"c", "o", "n", "s", "t", "r", "u", "c", "t", "o", "r">>,
                  <<"_", "_", "p", "r", "o", "t", "o", "_", "_">>}

\* token in SENTIMENT_LEXICON: own and inherited properties
InLexicon(token) ==
    \/ \E e \in SENTIMENT_LEXICON : e.word = token
    \/ token \in InheritedKeys

\* SENTIMENT_LEXICON[token]: a number, or the inherited function or object
LexiconValue(token) ==
    IF \E e \in SENTIMENT_LEXICON : e.word = token
    THEN [number |-> TRUE,
          weight |-> (CHOOSE e \in SENTIMENT_LEXICON : e.word = token).weight]
    ELSE [number |-> FALSE, weight |-> 0]

\* the loop of analyzeSentiment; score += v turns score into a string for
\* good once v is not a number
RECURSIVE SentimentLoop(_, _)
SentimentLoop(tokens, acc) ==
    IF tokens = <<>> THEN acc
    ELSE LET token == Head(tokens) IN
         SentimentLoop(Tail(tokens),
            IF InLexicon(token)
            THEN [score |-> acc.score + LexiconValue(token).weight,
                  isNumber |-> acc.isNumber /\ LexiconValue(token).number,
                  wordCount |-> acc.wordCount + 1]
            ELSE acc)

\* analyzeSentiment: score is NaN or the fraction <<sum, count>>;
\* x > 0.2 is 5 * sum > count, and every comparison with NaN is false
analyzeSentiment(text) ==
    LET acc == SentimentLoop(tokenize(toLowerCase(text)),
                             [score |-> 0, isNumber |-> TRUE, wordCount |-> 0])
        isNaN == ~acc.isNumber
        normalizedScore == IF acc.wordCount > 0
                           THEN <<acc.score, acc.wordCount>> ELSE <<0, 1>>
    IN [score |-> IF isNaN THEN "NaN" ELSE normalizedScore,
        category |->
            IF ~isNaN /\ 5 * normalizedScore[1] > normalizedScore[2]
            THEN "positive"
            ELSE IF ~isNaN /\ 5 * normalizedScore[1] < -normalizedScore[2]
            THEN "negative" ELSE "neutral"]

\* variant: the sentiment fallback is applied whatever was matched
FallbackAlways(intentions, category) ==
    IF category = "positive" /\ ~ \E i \in 1..Len(intentions) : intentions[i] = "praise"
    THEN Append(intentions, "praise")
    ELSE IF category = "negative"
            /\ ~ \E i \in 1..Len(intentions) : intentions[i] = "complaint"
    THEN Append(intentions, "complaint")
    ELSE intentions

\* detectIntentions: the fallback on the sentiment category
Fallback(intentions, category) ==
    IF Len(intentions) = 0
    THEN IF category = "positive" THEN <<"praise">>
         ELSE IF category = "negative" THEN <<"complaint">>
         ELSE intentions
    ELSE intentions

\* detectIntentions: the forEach over Object.entries(patterns), from entry i
RECURSIVE MatchIntentions(_, _, _)
MatchIntentions(lowerText, i, intentions) ==
    IF i > Len(IntentionPatterns) THEN intentions
    ELSE MatchIntentions(lowerText, i + 1,
            IF \E keyword \in IntentionPatterns[i].keywords :
                   Includes(lowerText, keyword)
            THEN Append(intentions, IntentionPatterns[i].intention)
            ELSE intentions)

detectIntentions(text, sentiment) ==
    Fallback(MatchIntentions(toLowerCase(text), 1, <<>>), sentiment.category)

(***************************************************************************)
(* The inputs of the text models: texts are fragments joined by a space.   *)
(***************************************************************************)
MaxSentimentWords == 5
MaxIntentWords == 3

RECURSIVE Join(_)
Join(fragments) ==
    IF fragments = <<>> THEN <<>>
    ELSE IF Len(fragments) = 1 THEN fragments[1]
    ELSE fragments[1] \o <<" ">> \o Join(Tail(fragments))

TextsOf(fragments, maxWords) ==
    {Join(f) : f \in UNION {[1..n -> fragments] : n \in 0..maxWords}}

SentimentFragments == {<<"g", "o", "o", "d">>,
                       <<"e", "a", "s", "y">>,
                       <<"b", "a", "d">>,
                       <<"G", "r", "e", "a", "t", "!">>,
                       <<"a", "p", "p">>,
                       <<"c", "o", "n", "s", "t", "r", "u", "c", "t", "o", "r">>}

IntentFragments == {<<"A", "d", "d", "i", "c", "t", "i", "o", "n">>,
                    <<"G", "R", "E", "A", "T">>,
                    <<"b", "u", "g", "!">>,
                    <<"o", "k">>,
                    <<"w", "h", "y", "?">>,
                    <<"a", "d", "d">>}

SentimentCategories == {"positive", "negative", "neutral"}

SentimentInit ==
    /\ JobIdle /\ AggIdle /\ ClsIdle
    /\ \E text \in TextsOf(SentimentFragments, MaxSentimentWords) :
          txtIn = [idle |-> FALSE, text |-> text]
    /\ txtOut = NoOutput

AnalyzeSentiment ==
    /\ txtOut = NoOutput
    /\ txtOut' = [done |-> TRUE, sentiment |-> analyzeSentiment(txtIn.text)]
    /\ UNCHANGED <<txtIn, jobVars, aggVars, clsVars>>

SentimentNext == AnalyzeSentiment

SpecSentiment == SentimentInit /\ [][SentimentNext]_vars

IntentInit ==
    /\ JobIdle /\ AggIdle /\ ClsIdle
    /\ \E text \in TextsOf(IntentFragments, MaxIntentWords),
          category \in SentimentCategories :
          txtIn = [idle |-> FALSE, text |-> text,
                   sentiment |-> [category |-> category]]
    /\ txtOut = NoOutput

DetectIntentions ==
    /\ txtOut = NoOutput
    /\ txtOut' = [done |-> TRUE,
                  intentions |-> detectIntentions(txtIn.text, txtIn.sentiment)]
    /\ UNCHANGED <<txtIn, jobVars, aggVars, clsVars>>

IntentNext == DetectIntentions

SpecIntent == IntentInit /\ [][IntentNext]_vars

(***************************************************************************)
(* Claims about sentiment and intentions.                                  *)
(***************************************************************************)
\* the lexicon weight of a token, 0 for a token that is not a lexicon word
WeightOf(token) ==
    IF \E e \in SENTIMENT_LEXICON : e.word = token
    THEN (CHOOSE e \in SENTIMENT_LEXICON : e.word = token).weight ELSE 0

RECURSIVE WeightSum(_)
WeightSum(tokens) ==
    IF tokens = <<>> THEN 0 ELSE WeightOf(Head(tokens)) + WeightSum(Tail(tokens))

MatchedCount(tokens) ==
    Cardinality({i \in 1..Len(tokens) :
                    \E e \in SENTIMENT_LEXICON : e.word = tokens[i]})

\* C5: value = (sum of the lexicon weights of the matched tokens) / (number
\* of matched tokens), or 0 when no token is in the lexicon; positive iff
\* value > 0.2, negative iff value < -0.2, neutral otherwise.
C5_SentimentIsThresholdedMean ==
    txtOut.done =>
        LET tokens == tokenize(txtIn.text)
            sum == WeightSum(tokens)
            count == MatchedCount(tokens)
            s == txtOut.sentiment
        IN /\ s.score # "NaN"
           /\ IF count = 0 THEN s.score[1] = 0
              ELSE s.score[1] * count = sum * s.score[2]
           /\ s.category = "positive" <=> (count > 0 /\ 5 * sum > count)
           /\ s.category = "negative" <=> (count > 0 /\ 5 * sum < -count)
           /\ s.category \in SentimentCategories

\* the categories one of whose phrases occurs in the lower-cased text
MatchedCategories(text) ==
    {IntentionPatterns[i].intention : i \in
        {k \in 1..Len(IntentionPatterns) :
            \E keyword \in IntentionPatterns[k].keywords :
                \E at \in 1..Len(text) :
                    /\ at + Len(keyword) - 1 <= Len(text)
                    /\ \A x \in 1..Len(keyword) :
                          toLowerCase(<<text[at + x - 1]>>) = <<keyword[x]>>}}

ResultSet == {txtOut.intentions[i] : i \in 1..Len(txtOut.intentions)}

\* C7: detectIntentions includes every category with a phrase occurring in
\* the lower-cased text; the sentiment fallback (praise for positive,
\* complaint for negative) is added only when no category matched; the
\* result is empty exactly when nothing matched and the sentiment is neutral.
C7_IntentionsMatchOrFallBack ==
    txtOut.done =>
        LET matched == MatchedCategories(txtIn.text)
            category == txtIn.sentiment.category
        IN /\ matched \subseteq ResultSet
           /\ matched # {} => ResultSet = matched
           /\ matched = {} =>
                 ResultSet = IF category = "positive" THEN {"praise"}
                             ELSE IF category = "negative" THEN {"complaint"}
                             ELSE {}
           /\ ResultSet = {} <=> (matched = {} /\ category = "neutral")
           /\ Len(txtOut.intentions) = Cardinality(ResultSet)

\* witness of C7: a text of negative sentiment matching two categories, so
\* that no complaint is added by the fallback
C7_Witness ==
    /\ txtOut.done
    /\ txtIn.sentiment.category = "negative"
    /\ ResultSet = {"feature_request", "praise"}

(***************************************************************************)
(* ReviewAnalysisService.extractKeywords.  Tokens are words, never digit   *)
(* strings or names inherited from Object.prototype, so that the for-in    *)
(* loops visit the terms in insertion order and every count is a number.   *)
(***************************************************************************)
\* the limit written into extractKeywords
KeywordSliceLimit == 10
\* opts.minKeywordLength || 4
DefaultMinKeywordLength == 4

\* wordFreq of the tokens of at least minLength characters: a sequence of
\* [term, count] in insertion order
RECURSIVE TermFrequency(_, _, _)
TermFrequency(tokens, minLength, wordFreq) ==
    IF tokens = <<>> THEN wordFreq
    ELSE LET token == Head(tokens) IN
         TermFrequency(Tail(tokens), minLength,
            IF Len(token) >= minLength
            THEN IF \E i \in 1..Len(wordFreq) : wordFreq[i].term = token
                 THEN [i \in 1..Len(wordFreq) |->
                        IF wordFreq[i].term = token
                        THEN [term |-> token, count |-> wordFreq[i].count + 1]
                        ELSE wordFreq[i]]
                 ELSE Append(wordFreq, [term |-> token, count |-> 1])
            ELSE wordFreq)

\* docFreq[word]: the documents whose lower-cased text contains the word
DocumentFrequency(word, allDocuments) ==
    Cardinality({i \in 1..Len(allDocuments) :
                    Includes(toLowerCase(allDocuments[i]), word)})

RECURSIVE Pow(_, _)
Pow(b, e) == IF e = 0 THEN 1 ELSE b * Pow(b, e - 1)

\* a.score > b.score for score = (count / tokens.length) * log(docCount / df):
\* count_a * log(N / df_a) > count_b * log(N / df_b), compared exactly
ScoreGreater(a, b, docCount) ==
    Pow(docCount, a.count) * Pow(b.df, b.count)
        > Pow(docCount, b.count) * Pow(a.df, a.count)

\* Array.prototype.sort((a, b) => b.score - a.score): stable, descending
RECURSIVE InsertByScore(_, _, _)
InsertByScore(sorted, item, docCount) ==
    IF sorted = <<>> THEN <<item>>
    ELSE IF ScoreGreater(item, Head(sorted), docCount)
         THEN <<item>> \o sorted
         ELSE <<Head(sorted)>> \o InsertByScore(Tail(sorted), item, docCount)

RECURSIVE SortByScore(_, _)
SortByScore(items, docCount) ==
    IF items = <<>> THEN <<>>
    ELSE InsertByScore(SortByScore(SubSeq(items, 1, Len(items) - 1), docCount),
                       items[Len(items)], docCount)

\* the tfidf array: the terms not skipped as common words, df being
\* docFreq[word] || 1
RECURSIVE TfIdfTerms(_, _, _)
TfIdfTerms(wordFreq, allDocuments, docCount) ==
    IF wordFreq = <<>> THEN <<>>
    ELSE LET w == Head(wordFreq)
             docFreq == DocumentFrequency(w.term, allDocuments)
             rest == TfIdfTerms(Tail(wordFreq), allDocuments, docCount)
         IN IF 2 * docFreq > docCount THEN rest
            ELSE <<[term |-> w.term, count |-> w.count,
                    df |-> IF docFreq = 0 THEN 1 ELSE docFreq]>> \o rest

extractKeywords(text, allDocuments, options) ==
    LET minLength == IF options.minKeywordLength = 0
                     THEN DefaultMinKeywordLength
                     ELSE options.minKeywordLength
        tokens == tokenize(text)
        docCount == IF Len(allDocuments) = 0 THEN 1 ELSE Len(allDocuments)
        sorted == SortByScore(
                    TfIdfTerms(TermFrequency(tokens, minLength, <<>>),
                               allDocuments, docCount), docCount)
    IN [i \in 1..(IF Len(sorted) < KeywordSliceLimit
                  THEN Len(sorted) ELSE KeywordSliceLimit) |-> sorted[i].term]

MaxKeywordWords == 3
MaxDocuments == 2
MaxTopK == 2

KeywordFragments == {<<"d", "a", "r", "k">>,
                     <<"m", "o", "d", "e">>,
                     <<"S", "y", "n", "c", "!">>,
                     <<"a", "p", "p">>}

\* the values of options.minKeywordLength tried; 0 stands for an unset option
MinLengthOptions == {0, 3, 5}

KeywordInit ==
    /\ JobIdle /\ AggIdle /\ ClsIdle
    /\ \E text \in TextsOf(KeywordFragments, MaxKeywordWords),
          minLength \in MinLengthOptions, topK \in 1..MaxTopK :
        \E docs \in UNION {[1..n -> TextsOf(KeywordFragments, 1)] :
                            n \in 0..MaxDocuments} :
            txtIn = [idle |-> FALSE, text |-> text, allDocuments |-> docs,
                     options |-> [minKeywordLength |-> minLength,
                                  maxKeywords |-> topK]]
    /\ txtOut = NoOutput

ExtractKeywords ==
    /\ txtOut = NoOutput
    /\ txtOut' = [done |-> TRUE,
                  keywords |-> extractKeywords(txtIn.text, txtIn.allDocuments,
                                               txtIn.options)]
    /\ UNCHANGED <<txtIn, jobVars, aggVars, clsVars>>

KeywordNext == ExtractKeywords

SpecKeywords == KeywordInit /\ [][KeywordNext]_vars

\* C6: the keyword list of a review holds no term shorter than the
\* configured minimum length and no more terms than the configured top-K
\* limit, whatever limit the caller sets.
C6_KeywordsRespectMinLengthAndTopK ==
    txtOut.done =>
        /\ \A i \in 1..Len(txtOut.keywords) :
              Len(txtOut.keywords[i]) >= txtIn.options.minKeywordLength
        /\ Len(txtOut.keywords) <= txtIn.options.maxKeywords

(***************************************************************************)
(* ReviewAnalysisService.analyzeReview and the detectors it calls.         *)
(***************************************************************************)
\* detectUserType: the pattern lists
newUserPatterns == {
    <<"j", "u", "s", "t", " ", "d", "o", "w", "n", "l", "o", "a", "d", "e", "d">>,
    <<"f", "i", "r", "s", "t", " ", "t", "i", "m", "e">>,
    <<"n", "e", "w", " ", "t", "o", " ", "t", "h", "i", "s">>,
    <<"r", "e", "c", "e", "n", "t", "l", "y", " ", "s", "t", "a", "r", "t", "e", "d">>,
    <<"j", "u", "s", "t", " ", "s", "t", "a", "r", "t", "e", "d">>,
    <<"j", "u", "s", "t", " ", "i", "n", "s", "t", "a", "l", "l", "e", "d">>,
    <<"n", "e", "w", " ", "u", "s", "e", "r">>,
    <<"b", "e", "g", "i", "n", "n", "e", "r">>,
    <<"j", "u", "s", "t", " ", "g", "o", "t">>,
    <<"j", "u", "s", "t", " ", "b", "e", "g", "i", "n", "n", "i", "n", "g">>,
    <<"j", "u", "s", "t", " ", "t", "r", "y", "i", "n", "g">>,
    <<"f", "i", "r", "s", "t", " ", "d", "a", "y">>,
    <<"f", "i", "r", "s", "t", " ", "w", "e", "e", "k">>}

powerUserPatterns == {
    <<"l", "o", "n", "g", " ", "t", "i", "m", "e", " ", "u", "s", "e", "r">>,
    <<"b", "e", "e", "n", " ", "u", "s", "i", "n", "g", " ", "f", "o", "r", " ", "y", "e", "a", "r", "s">>,
    <<"d", "a", "i", "l", "y", " ", "u", "s", "e", "r">>,
    <<"p", "o", "w", "e", "r", " ", "u", "s", "e", "r">>,
    <<"p", "r", "e", "m", "i", "u", "m", " ", "u", "s", "e", "r">>,
    <<"p", "r", "o", " ", "u", "s", "e", "r">>,
    <<"e", "x", "p", "e", "r", "t">>,
    <<"a", "d", "v", "a", "n", "c", "e", "d", " ", "u", "s", "e", "r">>,
    <<"l", "o", "y", "a", "l", " ", "u", "s", "e", "r">>,
    <<"u", "s", "i", "n", "g", " ", "s", "i", "n", "c", "e">>,
    <<"f", "o", "r", " ", "y", "e", "a", "r", "s">>,
    <<"h", "e", "a", "v", "y", " ", "u", "s", "e", "r">>,
    <<"r", "e", "g", "u", "l", "a", "r", " ", "u", "s", "e", "r">>,
    <<"p", "a", "i", "d", " ", "u", "s", "e", "r">>}

returningUserPatterns == {
    <<"c", "a", "m", "e", " ", "b", "a", "c", "k">>,
    <<"r", "e", "t", "u", "r", "n", "e", "d", " ", "t", "o">>,
    <<"g", "i", "v", "i", "n", "g", " ", "a", "n", "o", "t", "h", "e", "r", " ", "t", "r", "y">>,
    <<"r", "e", "i", "n", "s", "t", "a", "l", "l", "e", "d">>,
    <<"t", "r", "y", "i", "n", "g", " ", "a", "g", "a", "i", "n">>,
    <<"b", "a", "c", "k", " ", "a", "f", "t", "e", "r">>,
    <<"r", "e", "t", "u", "r", "n", "e", "d", " ", "a", "f", "t", "e", "r">>,
    <<"c", "o", "m", "i", "n", "g", " ", "b", "a", "c", "k">>,
    <<"s", "e", "c", "o", "n", "d", " ", "c", "h", "a", "n", "c", "e">>,
    <<"r", "e", "d", "o", "w", "n", "l", "o", "a", "d", "e", "d">>,
    <<"r", "e", "s", "u", "b", "s", "c", "r", "i", "b", "e", "d">>}

\* COMPETITORS, in order
COMPETITORS == <<
    <<"f", "a", "c", "e", "b", "o", "o", "k">>,
    <<"i", "n", "s", "t", "a", "g", "r", "a", "m">>,
    <<"t", "i", "k", "t", "o", "k">>,
    <<"s", "n", "a", "p", "c", "h", "a", "t">>,
    <<"t", "w", "i", "t", "t", "e", "r">>,
    <<"w", "h", "a", "t", "s", "a", "p", "p">>,
    <<"m", "e", "s", "s", "e", "n", "g", "e", "r">>,
    <<"s", "i", "g", "n", "a", "l">>,
    <<"t", "e", "l", "e", "g", "r", "a", "m">>,
    <<"d", "i", "s", "c", "o", "r", "d">>, <<"s", "l", "a", "c", "k">>,
    <<"t", "e", "a", "m", "s">>, <<"z", "o", "o", "m">>,
    <<"s", "k", "y", "p", "e">>, <<"w", "e", "c", "h", "a", "t">>,
    <<"l", "i", "n", "e">>, <<"v", "i", "b", "e", "r">>,
    <<"p", "i", "n", "t", "e", "r", "e", "s", "t">>,
    <<"l", "i", "n", "k", "e", "d", "i", "n">>,
    <<"y", "o", "u", "t", "u", "b", "e">>,
    <<"n", "e", "t", "f", "l", "i", "x">>, <<"h", "u", "l", "u">>,
    <<"d", "i", "s", "n", "e", "y">>, <<"p", "r", "i", "m", "e">>,
    <<"s", "p", "o", "t", "i", "f", "y">>, <<"a", "p", "p", "l", "e">>,
    <<"g", "o", "o", "g", "l", "e">>, <<"a", "m", "a", "z", "o", "n">>,
    <<"m", "i", "c", "r", "o", "s", "o", "f", "t">>,
    <<"s", "a", "m", "s", "u", "n", "g">>,
    <<"h", "u", "a", "w", "e", "i">>, <<"x", "i", "a", "o", "m", "i">>>>

\* determineBugSeverity: the term lists
highSeverityTerms == {
    <<"c", "r", "a", "s", "h">>, <<"f", "r", "e", "e", "z", "e">>,
    <<"u", "n", "u", "s", "a", "b", "l", "e">>,
    <<"b", "r", "o", "k", "e", "n">>,
    <<"l", "o", "s", "t", " ", "d", "a", "t", "a">>,
    <<"c", "o", "r", "r", "u", "p", "t">>,
    <<"s", "e", "c", "u", "r", "i", "t", "y">>,
    <<"p", "r", "i", "v", "a", "c", "y">>,
    <<"p", "a", "y", "m", "e", "n", "t">>, <<"m", "o", "n", "e", "y">>,
    <<"c", "h", "a", "r", "g", "e">>, <<"s", "t", "u", "c", "k">>,
    <<"c", "a", "n", "'", "t", " ", "l", "o", "g", "i", "n">>,
    <<"c", "a", "n", "'", "t", " ", "a", "c", "c", "e", "s", "s">>,
    <<"d", "e", "l", "e", "t", "e", "d">>, <<"w", "i", "p", "e", "d">>,
    <<"r", "e", "s", "e", "t">>}

mediumSeverityTerms == {
    <<"s", "l", "o", "w">>, <<"l", "a", "g">>, <<"d", "e", "l", "a", "y">>,
    <<"g", "l", "i", "t", "c", "h">>, <<"b", "u", "g">>,
    <<"i", "s", "s", "u", "e">>, <<"p", "r", "o", "b", "l", "e", "m">>,
    <<"d", "o", "e", "s", "n", "'", "t", " ", "w", "o", "r", "k">>,
    <<"n", "o", "t", " ", "w", "o", "r", "k", "i", "n", "g">>,
    <<"e", "r", "r", "o", "r">>, <<"f", "a", "i", "l", "e", "d">>}

\* featureRequestPatterns: each regular expression as the literal texts that
\* may precede the group (.{3,50}), in the order the alternatives are tried,
\* and the literal text that must follow it
featureRequestPatterns == <<
    [prefixes |-> <<
        <<"w", "i", "s", "h", "e", "d", " ", "i", "t", " ">>,
        <<"w", "i", "s", "h", "e", "d", " ", "t", "h", "e", "r", "e", " ", "w", "a", "s", " ">>,
        <<"w", "i", "s", "h", "e", "d", " ", "y", "o", "u", " ">>,
        <<"w", "i", "s", "h", "e", "d", " ", "t", "h", "e", "y", " ">>,
        <<"w", "i", "s", "h", "e", "d", " ", "h", "a", "d", " ">>,
        <<"w", "i", "s", "h", "e", "d", " ", "f", "o", "r", " ">>,
        <<"w", "i", "s", "h", " ", "i", "t", " ">>,
        <<"w", "i", "s", "h", " ", "t", "h", "e", "r", "e", " ", "w", "a", "s", " ">>,
        <<"w", "i", "s", "h", " ", "y", "o", "u", " ">>,
        <<"w", "i", "s", "h", " ", "t", "h", "e", "y", " ">>,
        <<"w", "i", "s", "h", " ", "h", "a", "d", " ">>,
        <<"w", "i", "s", "h", " ", "f", "o", "r", " ">>>>,
     suffix |-> <<>>, optional |-> FALSE],
    [prefixes |-> <<
        <<"n", "e", "e", "d", "s", " ", "t", "o", " ">>,
        <<"n", "e", "e", "d", "s", " ", "a", " ">>,
        <<"n", "e", "e", "d", "s", " ", "a", "n", " ">>,
        <<"n", "e", "e", "d", "s", " ", "m", "o", "r", "e", " ">>,
        <<"n", "e", "e", "d", " ", "t", "o", " ">>,
        <<"n", "e", "e", "d", " ", "a", " ">>,
        <<"n", "e", "e", "d", " ", "a", "n", " ">>,
        <<"n", "e", "e", "d", " ", "m", "o", "r", "e", " ">>>>,
     suffix |-> <<>>, optional |-> FALSE],
    [prefixes |-> <<
        <<"a", "d", "d", "i", "n", "g", " ">>, <<"a", "d", "d", " ">>>>,
     suffix |-> <<" ", "w", "o", "u", "l", "d">>, optional |-> FALSE],
    [prefixes |-> <<
        <<"p", "l", "e", "a", "s", "e", " ", "a", "d", "d", " ">>,
        <<"p", "l", "e", "a", "s", "e", " ", "i", "n", "c", "l", "u", "d", "e", " ">>>>,
     suffix |-> <<>>, optional |-> FALSE],
    [prefixes |-> <<
        <<"w", "o", "u", "l", "d", " ", "b", "e", " ", "n", "i", "c", "e", " ", "t", "o", " ", "h", "a", "v", "e", " ">>,
        <<"w", "o", "u", "l", "d", " ", "b", "e", " ", "n", "i", "c", "e", " ", "i", "f", " ", "y", "o", "u", " ">>,
        <<"w", "o", "u", "l", "d", " ", "b", "e", " ", "n", "i", "c", "e", " ", "i", "f", " ", "t", "h", "e", "r", "e", " ", "w", "a", "s", " ">>,
        <<"w", "o", "u", "l", "d", " ", "b", "e", " ", "n", "i", "c", "e", " ", "i", "f", " ", "i", "t", " ", "h", "a", "d", " ">>,
        <<"w", "o", "u", "l", "d", " ", "l", "o", "v", "e", " ", "t", "o", " ", "h", "a", "v", "e", " ">>,
        <<"w", "o", "u", "l", "d", " ", "l", "o", "v", "e", " ", "i", "f", " ", "y", "o", "u", " ">>,
        <<"w", "o", "u", "l", "d", " ", "l", "o", "v", "e", " ", "i", "f", " ", "t", "h", "e", "r", "e", " ", "w", "a", "s", " ">>,
        <<"w", "o", "u", "l", "d", " ", "l", "o", "v", "e", " ", "i", "f", " ", "i", "t", " ", "h", "a", "d", " ">>,
        <<"w", "o", "u", "l", "d", " ", "l", "i", "k", "e", " ", "t", "o", " ", "h", "a", "v", "e", " ">>,
        <<"w", "o", "u", "l", "d", " ", "l", "i", "k", "e", " ", "i", "f", " ", "y", "o", "u", " ">>,
        <<"w", "o", "u", "l", "d", " ", "l", "i", "k", "e", " ", "i", "f", " ", "t", "h", "e", "r", "e", " ", "w", "a", "s", " ">>,
        <<"w", "o", "u", "l", "d", " ", "l", "i", "k", "e", " ", "i", "f", " ", "i", "t", " ", "h", "a", "d", " ">>>>,
     suffix |-> <<>>, optional |-> FALSE],
    [prefixes |-> <<
        <<"m", "i", "s", "s", "i", "n", "g", " ">>,
        <<"l", "a", "c", "k", "s", " ">>>>,
     suffix |-> <<>>, optional |-> FALSE],
    [prefixes |-> <<
        <<"s", "h", "o", "u", "l", "d", " ", "a", "d", "d", " ">>,
        <<"s", "h", "o", "u", "l", "d", " ", "i", "n", "c", "l", "u", "d", "e", " ">>,
        <<"s", "h", "o", "u", "l", "d", " ", "i", "m", "p", "l", "e", "m", "e", "n", "t", " ">>,
        <<"c", "o", "u", "l", "d", " ", "a", "d", "d", " ">>,
        <<"c", "o", "u", "l", "d", " ", "i", "n", "c", "l", "u", "d", "e", " ">>,
        <<"c", "o", "u", "l", "d", " ", "i", "m", "p", "l", "e", "m", "e", "n", "t", " ">>>>,
     suffix |-> <<>>, optional |-> FALSE],
    [prefixes |-> <<
        <<"w", "a", "n", "t", " ">>,
        <<"l", "o", "o", "k", "i", "n", "g", " ", "f", "o", "r", " ">>>>,
     suffix |-> <<>>, optional |-> FALSE],
    [prefixes |-> <<
        <<"h", "o", "p", "e", " ", "y", "o", "u", " ", "a", "d", "d", " ">>,
        <<"h", "o", "p", "e", " ", "y", "o", "u", " ", "i", "n", "c", "l", "u", "d", "e", " ">>,
        <<"h", "o", "p", "e", " ", "y", "o", "u", " ", "i", "m", "p", "l", "e", "m", "e", "n", "t", " ">>,
        <<"h", "o", "p", "e", " ", "t", "h", "e", "y", " ", "a", "d", "d", " ">>,
        <<"h", "o", "p", "e", " ", "t", "h", "e", "y", " ", "i", "n", "c", "l", "u", "d", "e", " ">>,
        <<"h", "o", "p", "e", " ", "t", "h", "e", "y", " ", "i", "m", "p", "l", "e", "m", "e", "n", "t", " ">>>>,
     suffix |-> <<>>, optional |-> FALSE],
    [prefixes |-> <<
        <<"s", "u", "g", "g", "e", "s", "t", "i", "o", "n", "s", ":", " ">>,
        <<"s", "u", "g", "g", "e", "s", "t", "i", "o", "n", ":", " ">>>>,
     suffix |-> <<>>, optional |-> FALSE]>>

\* bugPatterns, likewise; the last one has an optional group
bugPatterns == <<
    [prefixes |-> <<
        <<"c", "r", "a", "s", "h", "e", "s", " ", "w", "i", "t", "h", " ">>,
        <<"c", "r", "a", "s", "h", "e", "s", " ", "w", "h", "e", "n", " ">>,
        <<"c", "r", "a", "s", "h", "e", "s", " ", "d", "u", "r", "i", "n", "g", " ">>,
        <<"c", "r", "a", "s", "h", "s", " ", "w", "i", "t", "h", " ">>,
        <<"c", "r", "a", "s", "h", "s", " ", "w", "h", "e", "n", " ">>,
        <<"c", "r", "a", "s", "h", "s", " ", "d", "u", "r", "i", "n", "g", " ">>,
        <<"c", "r", "a", "s", "h", " ", "w", "i", "t", "h", " ">>,
        <<"c", "r", "a", "s", "h", " ", "w", "h", "e", "n", " ">>,
        <<"c", "r", "a", "s", "h", " ", "d", "u", "r", "i", "n", "g", " ">>,
        <<"b", "u", "g", "e", "s", " ", "w", "i", "t", "h", " ">>,
        <<"b", "u", "g", "e", "s", " ", "w", "h", "e", "n", " ">>,
        <<"b", "u", "g", "e", "s", " ", "d", "u", "r", "i", "n", "g", " ">>,
        <<"b", "u", "g", "s", " ", "w", "i", "t", "h", " ">>,
        <<"b", "u", "g", "s", " ", "w", "h", "e", "n", " ">>,
        <<"b", "u", "g", "s", " ", "d", "u", "r", "i", "n", "g", " ">>,
        <<"b", "u", "g", " ", "w", "i", "t", "h", " ">>,
        <<"b", "u", "g", " ", "w", "h", "e", "n", " ">>,
        <<"b", "u", "g", " ", "d", "u", "r", "i", "n", "g", " ">>,
        <<"e", "r", "r", "o", "r", "e", "s", " ", "w", "i", "t", "h", " ">>,
        <<"e", "r", "r", "o", "r", "e", "s", " ", "w", "h", "e", "n", " ">>,
        <<"e", "r", "r", "o", "r", "e", "s", " ", "d", "u", "r", "i", "n", "g", " ">>,
        <<"e", "r", "r", "o", "r", "s", " ", "w", "i", "t", "h", " ">>,
        <<"e", "r", "r", "o", "r", "s", " ", "w", "h", "e", "n", " ">>,
        <<"e", "r", "r", "o", "r", "s", " ", "d", "u", "r", "i", "n", "g", " ">>,
        <<"e", "r", "r", "o", "r", " ", "w", "i", "t", "h", " ">>,
        <<"e", "r", "r", "o", "r", " ", "w", "h", "e", "n", " ">>,
        <<"e", "r", "r", "o", "r", " ", "d", "u", "r", "i", "n", "g", " ">>,
        <<"i", "s", "s", "u", "e", "e", "s", " ", "w", "i", "t", "h", " ">>,
        <<"i", "s", "s", "u", "e", "e", "s", " ", "w", "h", "e", "n", " ">>,
        <<"i", "s", "s", "u", "e", "e", "s", " ", "d", "u", "r", "i", "n", "g", " ">>,
        <<"i", "s", "s", "u", "e", "s", " ", "w", "i", "t", "h", " ">>,
        <<"i", "s", "s", "u", "e", "s", " ", "w", "h", "e", "n", " ">>,
        <<"i", "s", "s", "u", "e", "s", " ", "d", "u", "r", "i", "n", "g", " ">>,
        <<"i", "s", "s", "u", "e", " ", "w", "i", "t", "h", " ">>,
        <<"i", "s", "s", "u", "e", " ", "w", "h", "e", "n", " ">>,
        <<"i", "s", "s", "u", "e", " ", "d", "u", "r", "i", "n", "g", " ">>,
        <<"p", "r", "o", "b", "l", "e", "m", "e", "s", " ", "w", "i", "t", "h", " ">>,
        <<"p", "r", "o", "b", "l", "e", "m", "e", "s", " ", "w", "h", "e", "n", " ">>,
        <<"p", "r", "o", "b", "l", "e", "m", "e", "s", " ", "d", "u", "r", "i", "n", "g", " ">>,
        <<"p", "r", "o", "b", "l", "e", "m", "s", " ", "w", "i", "t", "h", " ">>,
        <<"p", "r", "o", "b", "l", "e", "m", "s", " ", "w", "h", "e", "n", " ">>,
        <<"p", "r", "o", "b", "l", "e", "m", "s", " ", "d", "u", "r", "i", "n", "g", " ">>,
        <<"p", "r", "o", "b", "l", "e", "m", " ", "w", "i", "t", "h", " ">>,
        <<"p", "r", "o", "b", "l", "e", "m", " ", "w", "h", "e", "n", " ">>,
        <<"p", "r", "o", "b", "l", "e", "m", " ", "d", "u", "r", "i", "n", "g", " ">>>>,
     suffix |-> <<>>, optional |-> FALSE],
    [prefixes |-> <<
        <<"d", "o", "e", "s", "n", "'", "t", " ">>,
        <<"d", "o", "e", "s", " ", "n", "o", "t", " ">>,
        <<"w", "o", "n", "'", "t", " ">>,
        <<"w", "i", "l", "l", " ", "n", "o", "t", " ">>,
        <<"c", "a", "n", "'", "t", " ">>,
        <<"c", "a", "n", "n", "o", "t", " ">>>>,
     suffix |-> <<>>, optional |-> FALSE],
    [prefixes |-> <<
        <<"b", "r", "o", "k", "e", "n", " ">>,
        <<"n", "o", "t", " ", "w", "o", "r", "k", "i", "n", "g", " ">>,
        <<"f", "a", "i", "l", "s", " ">>,
        <<"f", "a", "i", "l", "e", "d", " ">>>>,
     suffix |-> <<>>, optional |-> FALSE],
    [prefixes |-> <<
        <<"k", "e", "e", "p", "s", " ", "c", "r", "a", "s", "h", "i", "n", "g", " ", "w", "h", "e", "n", " ">>,
        <<"k", "e", "e", "p", "s", " ", "c", "r", "a", "s", "h", "i", "n", "g", " ", "d", "u", "r", "i", "n", "g", " ">>,
        <<"k", "e", "e", "p", "s", " ", "c", "r", "a", "s", "h", "i", "n", "g", " ", "a", "f", "t", "e", "r", " ">>,
        <<"k", "e", "e", "p", "s", " ", "f", "r", "e", "e", "z", "i", "n", "g", " ", "w", "h", "e", "n", " ">>,
        <<"k", "e", "e", "p", "s", " ", "f", "r", "e", "e", "z", "i", "n", "g", " ", "d", "u", "r", "i", "n", "g", " ">>,
        <<"k", "e", "e", "p", "s", " ", "f", "r", "e", "e", "z", "i", "n", "g", " ", "a", "f", "t", "e", "r", " ">>,
        <<"k", "e", "e", "p", "s", " ", "s", "t", "o", "p", "p", "i", "n", "g", " ", "w", "h", "e", "n", " ">>,
        <<"k", "e", "e", "p", "s", " ", "s", "t", "o", "p", "p", "i", "n", "g", " ", "d", "u", "r", "i", "n", "g", " ">>,
        <<"k", "e", "e", "p", "s", " ", "s", "t", "o", "p", "p", "i", "n", "g", " ", "a", "f", "t", "e", "r", " ">>,
        <<"c", "o", "n", "s", "t", "a", "n", "t", "l", "y", " ", "c", "r", "a", "s", "h", "i", "n", "g", " ", "w", "h", "e", "n", " ">>,
        <<"c", "o", "n", "s", "t", "a", "n", "t", "l", "y", " ", "c", "r", "a", "s", "h", "i", "n", "g", " ", "d", "u", "r", "i", "n", "g", " ">>,
        <<"c", "o", "n", "s", "t", "a", "n", "t", "l", "y", " ", "c", "r", "a", "s", "h", "i", "n", "g", " ", "a", "f", "t", "e", "r", " ">>,
        <<"c", "o", "n", "s", "t", "a", "n", "t", "l", "y", " ", "f", "r", "e", "e", "z", "i", "n", "g", " ", "w", "h", "e", "n", " ">>,
        <<"c", "o", "n", "s", "t", "a", "n", "t", "l", "y", " ", "f", "r", "e", "e", "z", "i", "n", "g", " ", "d", "u", "r", "i", "n", "g", " ">>,
        <<"c", "o", "n", "s", "t", "a", "n", "t", "l", "y", " ", "f", "r", "e", "e", "z", "i", "n", "g", " ", "a", "f", "t", "e", "r", " ">>,
        <<"c", "o", "n", "s", "t", "a", "n", "t", "l", "y", " ", "s", "t", "o", "p", "p", "i", "n", "g", " ", "w", "h", "e", "n", " ">>,
        <<"c", "o", "n", "s", "t", "a", "n", "t", "l", "y", " ", "s", "t", "o", "p", "p", "i", "n", "g", " ", "d", "u", "r", "i", "n", "g", " ">>,
        <<"c", "o", "n", "s", "t", "a", "n", "t", "l", "y", " ", "s", "t", "o", "p", "p", "i", "n", "g", " ", "a", "f", "t", "e", "r", " ">>>>,
     suffix |-> <<>>, optional |-> FALSE],
    [prefixes |-> <<
        <<"g", "l", "i", "t", "c", "h", " ", "i", "n", " ">>,
        <<"g", "l", "i", "t", "c", "h", " ", "w", "i", "t", "h", " ">>,
        <<"b", "u", "g", " ", "i", "n", " ">>,
        <<"b", "u", "g", " ", "w", "i", "t", "h", " ">>>>,
     suffix |-> <<>>, optional |-> FALSE],
    [prefixes |-> <<
        <<"u", "n", "a", "b", "l", "e", " ", "t", "o", " ">>,
        <<"i", "m", "p", "o", "s", "s", "i", "b", "l", "e", " ", "t", "o", " ">>>>,
     suffix |-> <<>>, optional |-> FALSE],
    [prefixes |-> <<
        <<"s", "t", "u", "c", "k", " ", "o", "n", " ">>,
        <<"s", "t", "u", "c", "k", " ", "a", "t", " ">>,
        <<"s", "t", "u", "c", "k", " ", "w", "h", "e", "n", " ">>,
        <<"s", "t", "u", "c", "k", " ", "d", "u", "r", "i", "n", "g", " ">>,
        <<"f", "r", "e", "e", "z", "e", "s", " ", "o", "n", " ">>,
        <<"f", "r", "e", "e", "z", "e", "s", " ", "a", "t", " ">>,
        <<"f", "r", "e", "e", "z", "e", "s", " ", "w", "h", "e", "n", " ">>,
        <<"f", "r", "e", "e", "z", "e", "s", " ", "d", "u", "r", "i", "n", "g", " ">>>>,
     suffix |-> <<>>, optional |-> FALSE],
    [prefixes |-> <<
        <<"f", "o", "r", "c", "e", " ", "c", "l", "o", "s", "i", "n", "g", " ", "w", "h", "e", "n", " ">>,
        <<"f", "o", "r", "c", "e", " ", "c", "l", "o", "s", "i", "n", "g", " ", "d", "u", "r", "i", "n", "g", " ">>,
        <<"f", "o", "r", "c", "e", " ", "c", "l", "o", "s", "i", "n", "g", " ", "a", "f", "t", "e", "r", " ">>,
        <<"f", "o", "r", "c", "e", " ", "s", "t", "o", "p", "p", "i", "n", "g", " ", "w", "h", "e", "n", " ">>,
        <<"f", "o", "r", "c", "e", " ", "s", "t", "o", "p", "p", "i", "n", "g", " ", "d", "u", "r", "i", "n", "g", " ">>,
        <<"f", "o", "r", "c", "e", " ", "s", "t", "o", "p", "p", "i", "n", "g", " ", "a", "f", "t", "e", "r", " ">>,
        <<"k", "e", "e", "p", "s", " ", "c", "l", "o", "s", "i", "n", "g", " ", "w", "h", "e", "n", " ">>,
        <<"k", "e", "e", "p", "s", " ", "c", "l", "o", "s", "i", "n", "g", " ", "d", "u", "r", "i", "n", "g", " ">>,
        <<"k", "e", "e", "p", "s", " ", "c", "l", "o", "s", "i", "n", "g", " ", "a", "f", "t", "e", "r", " ">>,
        <<"k", "e", "e", "p", "s", " ", "s", "t", "o", "p", "p", "i", "n", "g", " ", "w", "h", "e", "n", " ">>,
        <<"k", "e", "e", "p", "s", " ", "s", "t", "o", "p", "p", "i", "n", "g", " ", "d", "u", "r", "i", "n", "g", " ">>,
        <<"k", "e", "e", "p", "s", " ", "s", "t", "o", "p", "p", "i", "n", "g", " ", "a", "f", "t", "e", "r", " ">>>>,
     suffix |-> <<>>, optional |-> FALSE],
    [prefixes |-> <<
        <<"p", "r", "o", "b", "l", "e", "m", " ", "w", "i", "t", "h", " ">>,
        <<"p", "r", "o", "b", "l", "e", "m", " ", "w", "h", "e", "n", " ">>,
        <<"i", "s", "s", "u", "e", " ", "w", "i", "t", "h", " ">>,
        <<"i", "s", "s", "u", "e", " ", "w", "h", "e", "n", " ">>>>,
     suffix |-> <<>>, optional |-> FALSE],
    [prefixes |-> <<
        <<"n", "o", "t", " ", "l", "o", "a", "d", " ", "w", "h", "e", "n", " ">>,
        <<"n", "o", "t", " ", "l", "o", "a", "d", " ", "p", "r", "o", "p", "e", "r", "l", "y", " ">>,
        <<"n", "o", "t", " ", "l", "o", "a", "d", " ", "c", "o", "r", "r", "e", "c", "t", "l", "y", " ">>,
        <<"n", "o", "t", " ", "o", "p", "e", "n", " ", "w", "h", "e", "n", " ">>,
        <<"n", "o", "t", " ", "o", "p", "e", "n", " ", "p", "r", "o", "p", "e", "r", "l", "y", " ">>,
        <<"n", "o", "t", " ", "o", "p", "e", "n", " ", "c", "o", "r", "r", "e", "c", "t", "l", "y", " ">>,
        <<"n", "o", "t", " ", "f", "u", "n", "c", "t", "i", "o", "n", " ", "w", "h", "e", "n", " ">>,
        <<"n", "o", "t", " ", "f", "u", "n", "c", "t", "i", "o", "n", " ", "p", "r", "o", "p", "e", "r", "l", "y", " ">>,
        <<"n", "o", "t", " ", "f", "u", "n", "c", "t", "i", "o", "n", " ", "c", "o", "r", "r", "e", "c", "t", "l", "y", " ">>,
        <<"n", "o", "t", " ", "w", "o", "r", "k", " ", "w", "h", "e", "n", " ">>,
        <<"n", "o", "t", " ", "w", "o", "r", "k", " ", "p", "r", "o", "p", "e", "r", "l", "y", " ">>,
        <<"n", "o", "t", " ", "w", "o", "r", "k", " ", "c", "o", "r", "r", "e", "c", "t", "l", "y", " ">>,
        <<"d", "o", "e", "s", "n", "'", "t", " ", "l", "o", "a", "d", " ", "w", "h", "e", "n", " ">>,
        <<"d", "o", "e", "s", "n", "'", "t", " ", "l", "o", "a", "d", " ", "p", "r", "o", "p", "e", "r", "l", "y", " ">>,
        <<"d", "o", "e", "s", "n", "'", "t", " ", "l", "o", "a", "d", " ", "c", "o", "r", "r", "e", "c", "t", "l", "y", " ">>,
        <<"d", "o", "e", "s", "n", "'", "t", " ", "o", "p", "e", "n", " ", "w", "h", "e", "n", " ">>,
        <<"d", "o", "e", "s", "n", "'", "t", " ", "o", "p", "e", "n", " ", "p", "r", "o", "p", "e", "r", "l", "y", " ">>,
        <<"d", "o", "e", "s", "n", "'", "t", " ", "o", "p", "e", "n", " ", "c", "o", "r", "r", "e", "c", "t", "l", "y", " ">>,
        <<"d", "o", "e", "s", "n", "'", "t", " ", "f", "u", "n", "c", "t", "i", "o", "n", " ", "w", "h", "e", "n", " ">>,
        <<"d", "o", "e", "s", "n", "'", "t", " ", "f", "u", "n", "c", "t", "i", "o", "n", " ", "p", "r", "o", "p", "e", "r", "l", "y", " ">>,
        <<"d", "o", "e", "s", "n", "'", "t", " ", "f", "u", "n", "c", "t", "i", "o", "n", " ", "c", "o", "r", "r", "e", "c", "t", "l", "y", " ">>,
        <<"d", "o", "e", "s", "n", "'", "t", " ", "w", "o", "r", "k", " ", "w", "h", "e", "n", " ">>,
        <<"d", "o", "e", "s", "n", "'", "t", " ", "w", "o", "r", "k", " ", "p", "r", "o", "p", "e", "r", "l", "y", " ">>,
        <<"d", "o", "e", "s", "n", "'", "t", " ", "w", "o", "r", "k", " ", "c", "o", "r", "r", "e", "c", "t", "l", "y", " ">>>>,
     suffix |-> <<>>, optional |-> TRUE]>>

\* a property that may be missing from a raw review
Undefined == [defined |-> FALSE]
Some(v) == [defined |-> TRUE, value |-> v]

detectUserType(text) ==
    LET lowerText == toLowerCase(text) IN
    IF \E pattern \in newUserPatterns : Includes(lowerText, pattern)
    THEN "new"
    ELSE IF \E pattern \in powerUserPatterns : Includes(lowerText, pattern)
    THEN "power"
    ELSE IF \E pattern \in returningUserPatterns : Includes(lowerText, pattern)
    THEN "returning"
    ELSE "unknown"

\* COMPETITORS.filter(competitor => lowerText.includes(competitor))
detectCompetitorMentions(text) ==
    SelectSeq(COMPETITORS, LAMBDA c : Includes(toLowerCase(text), c))

\* score <= n is false for a missing score
determineBugSeverity(text, score) ==
    LET lowerText == toLowerCase(text) IN
    IF (\E term \in highSeverityTerms : Includes(lowerText, term))
         \/ (score.defined /\ score.value <= 1)
    THEN "high"
    ELSE IF (\E term \in mediumSeverityTerms : Includes(lowerText, term))
              \/ (score.defined /\ score.value <= 3)
    THEN "medium"
    ELSE "low"

\* the characters that . does not match
LineTerminators == {"\n", "\r"}

StartsWithAt(text, i, literal) ==
    /\ i + Len(literal) - 1 <= Len(text)
    /\ SubSeq(text, i, i + Len(literal) - 1) = literal

\* the length of the greedy group (.{3,50}) at position p when the suffix
\* follows it, or 0 when the group cannot match there
CaptureLength(text, lowerText, p, suffix) ==
    LET lengths == {k \in 3..50 :
                      /\ p + k - 1 <= Len(text)
                      /\ \A x \in p..(p + k - 1) : text[x] \notin LineTerminators
                      /\ StartsWithAt(lowerText, p + k, suffix)}
    IN IF lengths = {} THEN 0
       ELSE CHOOSE k \in lengths : \A other \in lengths : other <= k

\* text.match(pattern): the group of the leftmost match, the alternatives
\* tried in order, or Undefined when there is no match or no group
MatchGroup(text, pattern) ==
    LET lowerText == toLowerCase(text)
        Matches(i, a) ==
            /\ StartsWithAt(lowerText, i, pattern.prefixes[a])
            /\ \/ pattern.optional
               \/ CaptureLength(text, lowerText, i + Len(pattern.prefixes[a]),
                                pattern.suffix) > 0
        starts == {i \in 1..Len(text) :
                     \E a \in 1..Len(pattern.prefixes) : Matches(i, a)}
    IN IF starts = {} THEN Undefined
       ELSE LET i == CHOOSE s \in starts : \A other \in starts : s <= other
                a == CHOOSE b \in 1..Len(pattern.prefixes) :
                        /\ Matches(i, b)
                        /\ \A c \in 1..(b - 1) : ~Matches(i, c)
                p == i + Len(pattern.prefixes[a])
                k == CaptureLength(text, lowerText, p, pattern.suffix)
            IN IF k = 0 THEN Undefined ELSE Some(SubSeq(text, p, p + k - 1))

\* String.prototype.trim
RECURSIVE TrimStart(_)
TrimStart(text) ==
    IF text # <<>> /\ IsSpace(Head(text)) THEN TrimStart(Tail(text)) ELSE text

RECURSIVE TrimEnd(_)
TrimEnd(text) ==
    IF text # <<>> /\ IsSpace(text[Len(text)])
    THEN TrimEnd(SubSeq(text, 1, Len(text) - 1)) ELSE text

Trim(text) == TrimEnd(TrimStart(text))

\* patterns.forEach: a matched group of more than 3 characters not yet in
\* the list is pushed
RECURSIVE ExtractPhrases(_, _, _, _)
ExtractPhrases(text, patterns, i, phrases) ==
    IF i > Len(patterns) THEN phrases
    ELSE LET match == MatchGroup(text, patterns[i])
             phrase == Trim(match.value)
         IN ExtractPhrases(text, patterns, i + 1,
               IF match.defined /\ match.value # <<>> /\ Len(phrase) > 3
                    /\ \A x \in 1..Len(phrases) : phrases[x] # phrase
               THEN Append(phrases, phrase) ELSE phrases)

extractFeatureRequests(text) ==
    ExtractPhrases(text, featureRequestPatterns, 1, <<>>)

extractBugReports(text) == ExtractPhrases(text, bugPatterns, 1, <<>>)

InvalidTime == "RangeError: Invalid time value"

\* analyzeReview; new Date(undefined) is an invalid date, whose toISOString
\* throws
analyzeReview(review, allReviewTexts, options) ==
    LET content == IF review.text.defined THEN review.text.value ELSE <<>>
        sentiment == analyzeSentiment(content)
    IN IF ~review.date.defined
       THEN [threw |-> TRUE, error |-> InvalidTime]
       ELSE [threw |-> FALSE,
             id |-> review.id,
             userName |-> IF review.userName.defined
                             /\ review.userName.value # <<>>
                          THEN review.userName.value ELSE Anonymous,
             content |-> content,
             score |-> review.score,
             thumbsUp |-> IF review.thumbsUp.defined
                          THEN review.thumbsUp.value ELSE 0,
             date |-> review.date.value,
             year |-> DateOfDays(review.date.value).y,
             sentiment |-> sentiment.category,
             keywords |-> extractKeywords(content, allReviewTexts, options),
             intentions |-> detectIntentions(content, sentiment),
             userType |-> detectUserType(content),
             featureRequests |-> extractFeatureRequests(content),
             bugReports |-> extractBugReports(content),
             competitorMentions |-> detectCompetitorMentions(content),
             severity |-> determineBugSeverity(content, review.score)]

(***************************************************************************)
(* The raw reviews handed to analyzeReview, fields present or missing.     *)
(***************************************************************************)
ReviewTexts == {
    <<"p", "l", "e", "a", "s", "e", " ", "a", "d", "d", " ", "d", "a", "r", "k", " ", "m", "o", "d", "e">>,
    <<"c", "r", "a", "s", "h", "e", "s", " ", "w", "h", "e", "n", " ", "I", " ", "l", "o", "g", "i", "n">>,
    <<"b", "e", "t", "t", "e", "r", " ", "t", "h", "a", "n", " ", "W", "h", "a", "t", "s", "A", "p", "p">>,
    <<>>}

RawReviews ==
    [id : {1},
     userName : {Undefined, Some(Ann)},
     text : {Undefined} \cup {Some(t) : t \in ReviewTexts},
     score : {Undefined, Some(1), Some(5)},
     thumbsUp : {Undefined},
     date : {Undefined, Some(FirstNow)}]

\* DEFAULT_OPTIONS of the analysis: every option unset
DefaultAnalysisOptions == [minKeywordLength |-> 0, maxKeywords |-> 0]

ReviewInit ==
    /\ JobIdle /\ AggIdle /\ ClsIdle
    /\ \E review \in RawReviews :
        txtIn = [idle |-> FALSE, review |-> review, now |-> FirstNow,
                 allReviewTexts |-> <<IF review.text.defined
                                       THEN review.text.value ELSE <<>>>>,
                 options |-> DefaultAnalysisOptions]
    /\ txtOut = NoOutput

AnalyzeReview ==
    /\ txtOut = NoOutput
    /\ txtOut' = [done |-> TRUE,
                  comment |-> analyzeReview(txtIn.review, txtIn.allReviewTexts,
                                            txtIn.options)]
    /\ UNCHANGED <<txtIn, jobVars, aggVars, clsVars>>

ReviewNext == AnalyzeReview

SpecReview == ReviewInit /\ [][ReviewNext]_vars

\* C12: analyzeReview returns an AnalyzedComment for every combination of
\* missing userName, score and date: no error is thrown, a missing userName
\* is 'Anonymous', a missing score is 0 and a missing date is the current
\* time.
C12_MissingFieldsGetDefaults ==
    txtOut.done =>
        /\ ~txtOut.comment.threw
        /\ ~txtIn.review.userName.defined =>
              txtOut.comment.userName = Anonymous
        /\ ~txtIn.review.score.defined => txtOut.comment.score = Some(0)
        /\ ~txtIn.review.date.defined => txtOut.comment.date = txtIn.now

(***************************************************************************)
(* ClassificationService.  A similarity is a fraction [num, den] in lowest *)
(* terms.  The phrases classified have term vectors of magnitude 0, 1 or   *)
(* 2, so that Math.sqrt is exact and every similarity is the fraction the  *)
(* code computes.                                                          *)
(***************************************************************************)
\* DEFAULT_OPTIONS
DefaultClusterThreshold == [num |-> 3, den |-> 5]
DefaultMinClusterSize == 2
DefaultMaxClusters == 20

\* Math.sqrt on the perfect squares
Sqrt(n) == CHOOSE r \in 0..n : r * r = n

WordChars == {UpperCase[k] : k \in 1..26} \cup {LowerCase[k] : k \in 1..26}
                \cup Digits \cup {"_"}

\* split(/\W+/): the runs of word characters (the empty strings that split
\* also returns never pass the length filter)
RECURSIVE SplitOnNonWord(_, _, _)
SplitOnNonWord(text, current, words) ==
    IF text = <<>>
    THEN IF current = <<>> THEN words ELSE Append(words, current)
    ELSE IF Head(text) \in WordChars
         THEN SplitOnNonWord(Tail(text), Append(current, Head(text)), words)
         ELSE SplitOnNonWord(Tail(text), <<>>,
                  IF current = <<>> THEN words ELSE Append(words, current))

\* str.toLowerCase().split(/\W+/).filter(w => w.length > 2)
SimilarityWords(str) ==
    SelectSeq(SplitOnNonWord(toLowerCase(str), <<>>, <<>>),
              LAMBDA w : Len(w) > 2)

SeqRange(s) == {s[i] : i \in 1..Len(s)}

\* intersection.size / union.size
JaccardOfSets(set1, set2) ==
    IF set1 = {} \/ set2 = {} THEN Ratio(0, 1)
    ELSE Ratio(Cardinality(set1 \cap set2), Cardinality(set1 \cup set2))

calculateJaccardSimilarity(str1, str2) ==
    JaccardOfSets(SeqRange(SimilarityWords(str1)),
                  SeqRange(SimilarityWords(str2)))

\* vector[term] || 0
TermCount(tokens, term) == Cardinality({i \in 1..Len(tokens) : tokens[i] = term})

RECURSIVE SumProducts(_, _, _)
SumProducts(terms, tokens1, tokens2) ==
    IF terms = {} THEN 0
    ELSE LET term == CHOOSE t \in terms : TRUE
         IN TermCount(tokens1, term) * TermCount(tokens2, term)
              + SumProducts(terms \ {term}, tokens1, tokens2)

\* dotProduct / (magnitude1 * magnitude2), 0 when a magnitude is 0
CosineOf(dotProduct, magnitude1, magnitude2) ==
    IF magnitude1 = 0 \/ magnitude2 = 0 THEN Ratio(0, 1)
    ELSE Ratio(dotProduct, magnitude1 * magnitude2)

\* the two term vectors over allTerms
CosineOfTerms(terms, tokens1, tokens2) ==
    CosineOf(SumProducts(terms, tokens1, tokens2),
             Sqrt(SumProducts(terms, tokens1, tokens1)),
             Sqrt(SumProducts(terms, tokens2, tokens2)))

CosineOfTokens(tokens1, tokens2) ==
    CosineOfTerms(SeqRange(tokens1) \cup SeqRange(tokens2), tokens1, tokens2)

calculateCosineSimilarity(str1, str2) ==
    CosineOfTokens(SimilarityWords(str1), SimilarityWords(str2))

\* Math.max on two fractions
RatMax(a, b) == IF RatLess(a, b) THEN b ELSE a

calculateSimilarity(str1, str2) ==
    RatMax(calculateJaccardSimilarity(str1, str2),
           calculateCosineSimilarity(str1, str2))

\* matrix[i][j] = matrix[j][i] = similarity of items i and j, i < j
SimilarityMatrix(items) ==
    [i \in 1..Len(items) |-> [j \in 1..Len(items) |->
        IF i = j THEN Ratio(1, 1)
        ELSE calculateSimilarity(items[IF j < i THEN j ELSE i],
                                 items[IF j < i THEN i ELSE j])]]

\* totalSim over the pairs (itemI, itemJ) of two clusters, pair k onwards
RECURSIVE TotalSimilarity(_, _, _, _)
TotalSimilarity(clusterI, clusterJ, k, similarityMatrix) ==
    IF k > Len(clusterI) * Len(clusterJ) THEN Ratio(0, 1)
    ELSE LET itemI == clusterI[((k - 1) \div Len(clusterJ)) + 1]
             itemJ == clusterJ[((k - 1) % Len(clusterJ)) + 1]
         IN RatAdd(similarityMatrix[itemI][itemJ],
                   TotalSimilarity(clusterI, clusterJ, k + 1, similarityMatrix))

AverageSimilarity(clusterI, clusterJ, similarityMatrix) ==
    LET totalSim == TotalSimilarity(clusterI, clusterJ, 1, similarityMatrix)
    IN Ratio(totalSim.num, totalSim.den * Len(clusterI) * Len(clusterJ))

\* variant: the last pair looked at is kept, whatever its similarity
LastMerge(best, i, j, avgSim) ==
    [maxSimilarity |-> avgSim, mergeI |-> i, mergeJ |-> j]

\* if (avgSim > maxSimilarity): the pair (i, j) becomes the best one
BetterMerge(best, i, j, avgSim) ==
    IF RatLess(best.maxSimilarity, avgSim)
    THEN [maxSimilarity |-> avgSim, mergeI |-> i, mergeJ |-> j]
    ELSE best

\* the double loop that finds the two most similar clusters
RECURSIVE FindMerge(_, _, _, _, _)
FindMerge(clusters, similarityMatrix, i, j, best) ==
    IF i > Len(clusters) THEN best
    ELSE IF j > Len(clusters)
         THEN FindMerge(clusters, similarityMatrix, i + 1, i + 2, best)
         ELSE FindMerge(clusters, similarityMatrix, i, j + 1,
                    BetterMerge(best, i, j,
                                AverageSimilarity(clusters[i], clusters[j],
                                                  similarityMatrix)))

\* variant: the items of cluster mergeJ are added to cluster mergeI and
\* cluster mergeJ stays
MergedNotRemoved(clusters, best) ==
    [k \in 1..Len(clusters) |->
        IF k = best.mergeI
        THEN clusters[best.mergeI] \o clusters[best.mergeJ]
        ELSE clusters[k]]

\* clusters[mergeI].add(item) for the items of clusters[mergeJ], then
\* clusters.splice(mergeJ, 1)
MergedClusters(clusters, best) ==
    [k \in 1..(Len(clusters) - 1) |->
        IF k = best.mergeI
        THEN clusters[best.mergeI] \o clusters[best.mergeJ]
        ELSE IF k < best.mergeJ THEN clusters[k]
        ELSE clusters[k + 1]]

\* let maxSimilarity = -1, mergeI = -1, mergeJ = -1, then the double loop
BestMerge(clusters, similarityMatrix) ==
    FindMerge(clusters, similarityMatrix, 1, 2,
              [maxSimilarity |-> [num |-> -1, den |-> 1],
               mergeI |-> 0, mergeJ |-> 0])

\* while (clusters.length > 1)
RECURSIVE MergeLoop(_, _, _), MergeStep(_, _, _, _)
MergeLoop(clusters, similarityMatrix, threshold) ==
    IF Len(clusters) <= 1 THEN clusters
    ELSE MergeStep(clusters, similarityMatrix, threshold,
                   BestMerge(clusters, similarityMatrix))

\* one turn of the loop: break below the threshold, merge otherwise
MergeStep(clusters, similarityMatrix, threshold, best) ==
    IF RatLess(best.maxSimilarity, threshold) THEN clusters
    ELSE MergeLoop(MergedClusters(clusters, best), similarityMatrix,
                   threshold)

\* clusters.map(cluster => cluster.map(index => items[index]))
ItemsOfClusters(clusters, items) ==
    [c \in 1..Len(clusters) |->
        [m \in 1..Len(clusters[c]) |-> items[clusters[c][m]]]]

clusterSimilarItems(items, allDocuments, threshold) ==
    IF Len(items) = 0 THEN <<>>
    ELSE IF Len(items) = 1 THEN <<items>>
    ELSE ItemsOfClusters(MergeLoop([i \in 1..Len(items) |-> <<i>>],
                                   SimilarityMatrix(items), threshold),
                         items)

\* allFeatureRequests / allBugReports: the phrases of every comment in order
RECURSIVE AllPhrases(_)
AllPhrases(phraseLists) ==
    IF phraseLists = <<>> THEN <<>>
    ELSE Head(phraseLists) \o AllPhrases(Tail(phraseLists))

\* requestToComments.get(request): the comments (by position) pushed for the
\* phrase, one per occurrence
RECURSIVE CommentsOfPhrase(_, _, _)
CommentsOfPhrase(phrase, phraseLists, k) ==
    IF k > Len(phraseLists) THEN <<>>
    ELSE [i \in 1..Cardinality({m \in 1..Len(phraseLists[k]) :
                                  phraseLists[k][m] = phrase}) |-> k]
         \o CommentsOfPhrase(phrase, phraseLists, k + 1)

RECURSIVE ClusterComments(_, _)
ClusterComments(cluster, phraseLists) ==
    IF cluster = <<>> THEN <<>>
    ELSE CommentsOfPhrase(Head(cluster), phraseLists, 1)
         \o ClusterComments(Tail(cluster), phraseLists)

\* variant: every collected comment is kept
allClusterComments(clusterComments, comments) == clusterComments

\* new Map(clusterComments.map(comment => [comment.id, comment])).values():
\* one comment per id, in the order the ids first occur, the last one set
RECURSIVE MapById(_, _, _)
MapById(clusterComments, comments, map) ==
    IF clusterComments = <<>> THEN map
    ELSE LET c == Head(clusterComments) IN
         MapById(Tail(clusterComments), comments,
            IF \E i \in 1..Len(map) : comments[map[i]].id = comments[c].id
            THEN [i \in 1..Len(map) |->
                    IF comments[map[i]].id = comments[c].id THEN c ELSE map[i]]
            ELSE Append(map, c))

uniqueComments(clusterComments, comments) ==
    MapById(clusterComments, comments, <<>>)

\* sort((a, b) => b.length - a.length): stable, longest first
RECURSIVE InsertByLength(_, _)
InsertByLength(sorted, cluster) ==
    IF sorted = <<>> THEN <<cluster>>
    ELSE IF Len(cluster) > Len(Head(sorted)) THEN <<cluster>> \o sorted
    ELSE <<Head(sorted)>> \o InsertByLength(Tail(sorted), cluster)

RECURSIVE SortByLength(_)
SortByLength(clusters) ==
    IF clusters = <<>> THEN <<>>
    ELSE InsertByLength(SortByLength(SubSeq(clusters, 1, Len(clusters) - 1)),
                        clusters[Len(clusters)])

\* filter by opts.minClusterSize || 2, sort, slice(0, opts.maxClusters || 20)
ValidClusters(clusters, opts) ==
    LET minClusterSize == IF opts.minClusterSize = 0
                          THEN DefaultMinClusterSize ELSE opts.minClusterSize
        maxClusters == IF opts.maxClusters = 0
                       THEN DefaultMaxClusters ELSE opts.maxClusters
        sorted == SortByLength(SelectSeq(clusters,
                                LAMBDA c : Len(c) >= minClusterSize))
    IN SubSeq(sorted, 1, IF Len(sorted) < maxClusters
                         THEN Len(sorted) ELSE maxClusters)

\* opts.clusterThreshold || 0.6
EffectiveThreshold(opts) ==
    IF opts.clusterThreshold.num = 0 THEN DefaultClusterThreshold
    ELSE opts.clusterThreshold

\* DEFAULT_OPTIONS: featurePriorityThreshold and bugSeverityThreshold
FeaturePriorityHigh == 10
FeaturePriorityMedium == 5
BugSeverityHigh == 8
BugSeverityMedium == 3

\* sentiment >= 4.5 is 2 * sentiment >= 9, sentiment >= 3.5 is
\* 2 * sentiment >= 7
determineFeaturePriority(count, sentiment) ==
    IF count >= FeaturePriorityHigh \/ ~RatLess(sentiment, Ratio(9, 2))
    THEN "high"
    ELSE IF count >= FeaturePriorityMedium \/ ~RatLess(sentiment, Ratio(7, 2))
    THEN "medium"
    ELSE "low"

\* variant: the impact by the count and the ratings alone
ImpactWithoutSeverity(count, severity, avgRating) ==
    IF count >= BugSeverityHigh \/ ~RatLess(Ratio(3, 2), avgRating)
    THEN "high"
    ELSE IF count >= BugSeverityMedium \/ ~RatLess(Ratio(3, 1), avgRating)
    THEN "medium"
    ELSE "low"

\* avgRating is a fraction; ratings is never empty here
determineBugImpact(count, severity, avgRating) ==
    IF count >= BugSeverityHigh \/ severity = "high"
       \/ ~RatLess(Ratio(3, 2), avgRating)
    THEN "high"
    ELSE IF count >= BugSeverityMedium \/ severity = "medium"
            \/ ~RatLess(Ratio(3, 1), avgRating)
    THEN "medium"
    ELSE "low"

\* uniqueComments.map(comment => comment.score)
RatingsOf(unique, comments) ==
    [i \in 1..Len(unique) |-> comments[unique[i]].score]

\* 1 for a positive comment, -1 for a negative one
SignsOf(unique, comments) ==
    [i \in 1..Len(unique) |->
        IF comments[unique[i]].sentiment = "positive" THEN 1
        ELSE IF comments[unique[i]].sentiment = "negative" THEN -1 ELSE 0]

\* Of a cluster the phrases, the ids of its comments, the count, the
\* ratings and the priority or impact are kept; the name, the keywords and
\* the examples are texts nothing else is computed from.
AverageRating(unique, comments) ==
    Ratio(SumCounts(RatingsOf(unique, comments)), Len(unique))

\* the FeatureCluster of one valid cluster; unique are its uniqueComments
FeatureCluster(cluster, unique, comments) ==
    [requests |-> cluster,
     comments |-> [i \in 1..Len(unique) |-> comments[unique[i]].id],
     count |-> Len(unique),
     averageRating |-> AverageRating(unique, comments),
     sentiment |-> Ratio(SumCounts(SignsOf(unique, comments)), Len(unique)),
     priority |-> determineFeaturePriority(Len(unique),
                                           AverageRating(unique, comments))]

FeatureClusters(validClusters, phraseLists, comments) ==
    [index \in 1..Len(validClusters) |->
        FeatureCluster(validClusters[index],
                       uniqueComments(ClusterComments(validClusters[index],
                                                      phraseLists),
                                      comments),
                       comments)]

\* featureRequests of every comment, in order
FeatureRequestsOf(comments) ==
    [k \in 1..Len(comments) |-> comments[k].featureRequests]

\* allTexts is not read by the similarity the clustering uses
ClustersOfPhrases(phraseLists, options) ==
    ValidClusters(clusterSimilarItems(AllPhrases(phraseLists), <<>>,
                                      EffectiveThreshold(options)),
                  options)

classifyFeatureRequests(comments, options) ==
    FeatureClusters(ClustersOfPhrases(FeatureRequestsOf(comments), options),
                    FeatureRequestsOf(comments), comments)

\* the highest severity among the comments of the cluster
HighestSeverity(unique, comments) ==
    IF \E i \in 1..Len(unique) : comments[unique[i]].severity = "high"
    THEN "high"
    ELSE IF \E i \in 1..Len(unique) : comments[unique[i]].severity = "medium"
    THEN "medium"
    ELSE "low"

\* the BugCluster of one valid cluster; unique are its uniqueComments
BugCluster(cluster, unique, comments) ==
    [reports |-> cluster,
     comments |-> [i \in 1..Len(unique) |-> comments[unique[i]].id],
     count |-> Len(unique),
     severity |-> HighestSeverity(unique, comments),
     impact |-> determineBugImpact(Len(unique),
                                   HighestSeverity(unique, comments),
                                   AverageRating(unique, comments)),
     status |-> "new"]

BugClusters(validClusters, phraseLists, comments) ==
    [index \in 1..Len(validClusters) |->
        BugCluster(validClusters[index],
                   uniqueComments(ClusterComments(validClusters[index],
                                                  phraseLists),
                                  comments),
                   comments)]

\* bugReports of every comment, in order
BugReportsOf(comments) ==
    [k \in 1..Len(comments) |-> comments[k].bugReports]

classifyBugReports(comments, appVersions, options) ==
    BugClusters(ClustersOfPhrases(BugReportsOf(comments), options),
                BugReportsOf(comments), comments)

\* sort((a, b) => b.count - a.count): stable, largest count first
SortedByCount(list) ==
    [p \in 1..Len(list) |->
        list[CHOOSE i \in 1..Len(list) :
                Cardinality({k \in 1..Len(list) :
                                \/ list[k].count > list[i].count
                                \/ list[k].count = list[i].count /\ k < i})
                  = p - 1]]

SortByCount(list) == Const(list, LAMBDA l : SortedByCount(l))

ClassificationOf(featureClusters, bugClusters) ==
       [done |-> TRUE,
        featureClusters |-> featureClusters,
        bugClusters |-> bugClusters,
        competitorAnalysis |-> <<>>,
        recurringIssues |->
            SelectSeq(bugClusters, LAMBDA bug : bug.status = "recurring"),
        topFeatureRequests |->
            SortByCount(SelectSeq(featureClusters,
                                  LAMBDA feature : feature.priority = "high")),
        criticalBugs |->
            SortByCount(SelectSeq(bugClusters,
                                  LAMBDA bug : bug.impact = "high"))]

classifyReviews(comments, appVersions, options) ==
    Const(<<classifyFeatureRequests(comments, options),
            classifyBugReports(comments, appVersions, options)>>,
          LAMBDA clusters : ClassificationOf(clusters[1], clusters[2]))

MaxClassified == 2

DarkMode == <<"a", "d", "d", " ", "a", " ", "d", "a", "r", "k", " ", "m", "o", "d", "e", " ", "o", "p", "t", "i", "o", "n">>
DarkModeAgain == <<"A", "d", "d", " ", "d", "a", "r", "k", " ", "m", "o", "d", "e", " ", "o", "p", "t", "i", "o", "n", "!">>
NightMode == <<"a", "d", "d", " ", "a", " ", "n", "i", "g", "h", "t", " ", "m", "o", "d", "e", " ", "o", "p", "t", "i", "o", "n">>
UiUx == <<"U", "I", " ", "U", "X">>
Widgets == <<"w", "i", "d", "g", "e", "t", "s">>
Crash == <<"c", "r", "a", "s", "h">>
CrashAgain == <<"C", "r", "a", "s", "h", "!">>

\* the phrases extracted from one review: feature requests and bug reports
ExtractedPhrases ==
    {[featureRequests |-> <<>>, bugReports |-> <<Crash>>],
     [featureRequests |-> <<DarkMode>>, bugReports |-> <<>>],
     [featureRequests |-> <<DarkMode, DarkModeAgain>>,
      bugReports |-> <<Crash, CrashAgain>>],
     [featureRequests |-> <<NightMode>>, bugReports |-> <<CrashAgain>>],
     [featureRequests |-> <<UiUx>>, bugReports |-> <<>>],
     [featureRequests |-> <<Widgets, DarkMode>>, bugReports |-> <<>>]}
CommentIdSet == {"r1", "r2"}

\* the option bags tried; 0 stands for an unset option
ClassificationOptionBags ==
    {[clusterThreshold |-> t, minClusterSize |-> 0, maxClusters |-> 0] :
        t \in {[num |-> 0, den |-> 1], [num |-> 1, den |-> 4],
               [num |-> 1, den |-> 1]}}
    \cup {[clusterThreshold |-> [num |-> 0, den |-> 1],
           minClusterSize |-> 1, maxClusters |-> 0],
          [clusterThreshold |-> [num |-> 1, den |-> 1],
           minClusterSize |-> 1, maxClusters |-> 1]}

AnalyzedComments ==
    {[id |-> id, featureRequests |-> p.featureRequests,
      bugReports |-> p.bugReports, score |-> 3, sentiment |-> "neutral",
      severity |-> "medium"] :
        id \in CommentIdSet, p \in ExtractedPhrases}

ClassifyInit ==
    /\ JobIdle /\ AggIdle /\ TxtIdle
    /\ \E n \in 0..MaxClassified :
        \E comments \in [1..n -> AnalyzedComments],
           options \in ClassificationOptionBags :
            clsIn = [idle |-> FALSE, comments |-> comments,
                     options |-> options]
    /\ clsOut = NoClassification

ClassifyReviews ==
    /\ ~clsIn.idle
    /\ clsOut = NoClassification
    /\ clsOut' = classifyReviews(clsIn.comments, <<>>, clsIn.options)
    /\ UNCHANGED <<clsIn, jobVars, aggVars, txtVars>>

ClassifyNext == ClassifyReviews

SpecClassify == ClassifyInit /\ [][ClassifyNext]_vars

\* the ids of the comments that contributed a member phrase of a cluster
Contributors(members, phraseLists) ==
    {clsIn.comments[k].id :
        k \in {k \in 1..Len(phraseLists) :
                 SeqRange(phraseLists[k]) \cap SeqRange(members) # {}}}

FeaturePhraseLists ==
    [k \in 1..Len(clsIn.comments) |-> clsIn.comments[k].featureRequests]

BugPhraseLists ==
    [k \in 1..Len(clsIn.comments) |-> clsIn.comments[k].bugReports]

\* C9: the count of every FeatureCluster and BugCluster returned is the
\* number of distinct comment ids among the comments that contributed at
\* least one member phrase; several phrases of one comment, or several
\* occurrences of one phrase, count once.
C9_CountIsDistinctContributors ==
    clsOut.done =>
        /\ \A c \in 1..Len(clsOut.featureClusters) :
              clsOut.featureClusters[c].count =
                Cardinality(Contributors(clsOut.featureClusters[c].requests,
                                         FeaturePhraseLists))
        /\ \A c \in 1..Len(clsOut.bugClusters) :
              clsOut.bugClusters[c].count =
                Cardinality(Contributors(clsOut.bugClusters[c].reports,
                                         BugPhraseLists))

Occurrences(phrase, phrases) ==
    Cardinality({i \in 1..Len(phrases) : phrases[i] = phrase})

\* a cluster in which one comment has two member phrases and one phrase
\* occurs twice
Overlapping(members, phraseLists) ==
    /\ \E k \in 1..Len(phraseLists) :
          Cardinality(SeqRange(phraseLists[k]) \cap SeqRange(members)) >= 2
    /\ \E phrase \in SeqRange(members) : Occurrences(phrase, members) >= 2

\* a feature cluster and a bug cluster, each built from two comment ids
\* with overlapping contributions, have been returned
C9_Witness ==
    /\ clsOut.done
    /\ \E c \in 1..Len(clsOut.featureClusters) :
          /\ Overlapping(clsOut.featureClusters[c].requests, FeaturePhraseLists)
          /\ clsOut.featureClusters[c].count = 2
    /\ \E c \in 1..Len(clsOut.bugClusters) :
          /\ Overlapping(clsOut.bugClusters[c].reports, BugPhraseLists)
          /\ clsOut.bugClusters[c].count = 2

\* the comments whose feature requests hold the phrase verbatim
SharedBy(phrase) ==
    {k \in 1..Len(clsIn.comments) :
        phrase \in SeqRange(clsIn.comments[k].featureRequests)}

\* C10: with the default size filter and cluster limit, a phrase of more
\* than 3 characters that two or more reviews with distinct ids share
\* verbatim has all its copies in one FeatureCluster, for every threshold in
\* (0, 1] and whatever other phrases are present; when exactly two reviews
\* share it and there is no other phrase, the result is one cluster with
\* count 2.
C10_SharedPhraseFormsOneCluster ==
    (/\ clsOut.done
     /\ clsIn.options.minClusterSize = 0
     /\ clsIn.options.maxClusters = 0) =>
        \A phrase \in SeqRange(AllPhrases(FeaturePhraseLists)) :
            (/\ Len(phrase) > 3
             /\ Cardinality(SharedBy(phrase)) >= 2
             /\ Cardinality({clsIn.comments[k].id : k \in SharedBy(phrase)})
                    = Cardinality(SharedBy(phrase))) =>
                /\ \E c \in 1..Len(clsOut.featureClusters) :
                      Occurrences(phrase, clsOut.featureClusters[c].requests)
                        = Occurrences(phrase, AllPhrases(FeaturePhraseLists))
                /\ AllPhrases(FeaturePhraseLists) = <<phrase, phrase>> =>
                      /\ Len(clsOut.featureClusters) = 1
                      /\ clsOut.featureClusters[1].count = 2

(***************************************************************************)
(* ReviewAnalysisService.analyzeReviews.  A number that can be NaN is      *)
(* [nan |-> TRUE] or [nan |-> FALSE, value |-> fraction].                  *)
(***************************************************************************)
DefaultMinKeywordFrequency == 2
DefaultMaxKeywords == 50
DefaultMaxExamples == 3

NaN == [nan |-> TRUE]
Num(fraction) == [nan |-> FALSE, value |-> fraction]

\* sum / count for scores that may be undefined: 0 / 0 and a sum over an
\* undefined score are NaN
RECURSIVE SumValues(_)
SumValues(scores) ==
    IF scores = <<>> THEN 0 ELSE Head(scores).value + SumValues(Tail(scores))

MeanOf(scores, count) ==
    IF count = 0 \/ \E i \in 1..Len(scores) : ~scores[i].defined THEN NaN
    ELSE Num(Ratio(SumValues(scores), count))

\* the items of the comments' lists in forEach order, each with the
\* position of its comment
RECURSIVE ItemsFrom(_, _)
ItemsFrom(lists, k) ==
    IF k > Len(lists) THEN <<>>
    ELSE [m \in 1..Len(lists[k]) |-> [item |-> lists[k][m], from |-> k]]
         \o ItemsFrom(lists, k + 1)

\* the keys of a Map in insertion order
MapKeys(items) ==
    LET first == {i \in 1..Len(items) :
                     \A j \in 1..(i - 1) : items[j].item # items[i].item}
    IN [p \in 1..Cardinality(first) |->
           items[CHOOSE i \in first :
                    Cardinality({j \in first : j < i}) = p - 1].item]

\* the positions of the comments an entry was updated from, in order
UpdatesOf(key, items) ==
    LET hits == SelectSeq(items, LAMBDA x : x.item = key)
    IN [i \in 1..Len(hits) |-> hits[i].from]

ScoresAt(positions, comments) ==
    [i \in 1..Len(positions) |-> comments[positions[i]].score]

CountWhere(positions, comments, field, value) ==
    Cardinality({i \in 1..Len(positions) :
                    comments[positions[i]][field] = value})

\* sort((a, b) => keys(b) - keys(a)): stable, largest key first
SortDescByKeys(list, keys) ==
    [p \in 1..Len(list) |->
        list[CHOOSE i \in 1..Len(list) :
                Cardinality({k \in 1..Len(list) :
                                \/ keys[k] > keys[i]
                                \/ keys[k] = keys[i] /\ k < i})
                  = p - 1]]

\* analyzedComments.filter(predicate), as the ids of the comments
IdsWhere(comments, Test(_)) ==
    LET kept == SelectSeq(comments, Test) IN
    [i \in 1..Len(kept) |-> kept[i].id]

\* reviews.map(review => review.text || '')
AllReviewTexts(reviews) ==
    [i \in 1..Len(reviews) |->
        IF reviews[i].text.defined THEN reviews[i].text.value ELSE <<>>]

\* reviews.map(review => this.analyzeReview(review, allReviewTexts, opts))
AnalyzedAll(reviews, allReviewTexts, options) ==
    [i \in 1..Len(reviews) |->
        analyzeReview(reviews[i], allReviewTexts, options)]

\* keywordMap entry of a word; updates are the comments it was seen in
KeywordEntry(word, updates, comments) ==
    [word |-> word,
     count |-> Len(updates),
     sentiment |-> MeanOf(ScoresAt(updates, comments), Len(updates)),
     documents |-> Cardinality(SeqRange(updates))]

KeywordEntries(items, words, comments) ==
    [w \in 1..Len(words) |->
        KeywordEntry(words[w], UpdatesOf(words[w], items), comments)]

\* filter by minKeywordFrequency, sort by count, slice(0, maxKeywords)
KeywordsOf(items, comments, options) ==
    Take(SortByCount(
             SelectSeq(KeywordEntries(items, MapKeys(items), comments),
                       LAMBDA keyword :
                           keyword.count >=
                             OrDefault(options.minKeywordFrequency,
                                       DefaultMinKeywordFrequency))),
         OrDefault(options.maxKeywords, DefaultMaxKeywords))

\* featureMap entry of a feature; updates are the comments asking for it
FeatureEntry(feature, updates, comments, maxExamples) ==
    [feature |-> feature,
     count |-> Len(updates),
     examples |-> Take([i \in 1..Len(updates) |-> comments[updates[i]].content],
                       maxExamples),
     averageRating |-> MeanOf(ScoresAt(updates, comments), Len(updates)),
     sentiment |-> MeanOf(ScoresAt(updates, comments), Len(updates))]

FeatureEntries(items, features, comments, maxExamples) ==
    [f \in 1..Len(features) |->
        FeatureEntry(features[f], UpdatesOf(features[f], items), comments,
                     maxExamples)]

FeatureRequestsFrom(items, comments, options) ==
    SortByCount(FeatureEntries(items, MapKeys(items), comments,
                               OrDefault(options.maxExamples,
                                         DefaultMaxExamples)))

\* high if any report is high, else medium if more medium than low reports
SeverityOf(high, medium, low) ==
    IF high > 0 THEN "high" ELSE IF medium > low THEN "medium" ELSE "low"

\* bugMap entry of an issue; updates are the comments reporting it
BugEntry(issue, updates, comments, maxExamples) ==
    [issue |-> issue,
     count |-> Len(updates),
     examples |-> Take([i \in 1..Len(updates) |-> comments[updates[i]].content],
                       maxExamples),
     severity |-> SeverityOf(CountWhere(updates, comments, "severity", "high"),
                             CountWhere(updates, comments, "severity",
                                        "medium"),
                             CountWhere(updates, comments, "severity", "low"))]

BugEntries(items, issues, comments, maxExamples) ==
    [b \in 1..Len(issues) |->
        BugEntry(issues[b], UpdatesOf(issues[b], items), comments,
                 maxExamples)]

BugReportsFrom(items, comments, options) ==
    SortByCount(BugEntries(items, MapKeys(items), comments,
                           OrDefault(options.maxExamples, DefaultMaxExamples)))

\* sentiment of a competitor over total mentions
CompetitorSentiment(positive, negative, total) ==
    [positive |-> positive,
     negative |-> negative,
     neutral |-> total - positive - negative,
     average |-> Ratio(positive * 5 + (total - positive - negative) * 3
                         + negative, total)]

\* competitorMap entry; updates are the comments mentioning the competitor
CompetitorEntry(competitor, updates, comments) ==
    [competitor |-> competitor,
     mentions |-> [i \in 1..Len(updates) |-> comments[updates[i]].id],
     sentiment |->
         CompetitorSentiment(
             CountWhere(updates, comments, "sentiment", "positive"),
             CountWhere(updates, comments, "sentiment", "negative"),
             Len(updates))]

CompetitorEntries(items, competitors, comments) ==
    [c \in 1..Len(competitors) |->
        CompetitorEntry(competitors[c], UpdatesOf(competitors[c], items),
                        comments)]

MentionCounts(entries) ==
    [c \in 1..Len(entries) |-> Len(entries[c].mentions)]

\* sort((a, b) => b.mentions.length - a.mentions.length)
SortByMentions(entries) == SortDescByKeys(entries, MentionCounts(entries))

CompetitorMentionsFrom(items, comments) ==
    SortByMentions(CompetitorEntries(items, MapKeys(items), comments))

\* the items of one list field of every comment
ItemsOfField(comments, field) ==
    ItemsFrom([i \in 1..Len(comments) |-> comments[i][field]], 1)

\* the AnalysisResult built from the analyzed comments
AnalysisOf(comments, options) ==
    IF \E i \in 1..Len(comments) : comments[i].threw
    THEN [threw |-> TRUE, error |-> InvalidTime]
    ELSE
    [threw |-> FALSE,
     comments |-> comments,
     sentiment |->
         [positive |-> Len(SelectSeq(comments,
                           LAMBDA c : c.sentiment = "positive")),
          negative |-> Len(SelectSeq(comments,
                           LAMBDA c : c.sentiment = "negative")),
          neutral |-> Len(SelectSeq(comments,
                          LAMBDA c : c.sentiment = "neutral")),
          average |-> MeanOf([i \in 1..Len(comments) |-> comments[i].score],
                             Len(comments))],
     keywords |-> KeywordsOf(ItemsOfField(comments, "keywords"), comments,
                             options),
     intentions |->
         [category \in {"feature_request", "bug_report", "praise",
                        "complaint", "question", "comparison"} |->
             IdsWhere(comments,
                      LAMBDA c : \E i \in 1..Len(c.intentions) :
                                     c.intentions[i] = category)],
     featureRequests |->
         FeatureRequestsFrom(ItemsOfField(comments, "featureRequests"),
                             comments, options),
     bugReports |-> BugReportsFrom(ItemsOfField(comments, "bugReports"),
                                   comments, options),
     userSegments |->
         [newUsers |-> IdsWhere(comments, LAMBDA c : c.userType = "new"),
          powerUsers |-> IdsWhere(comments, LAMBDA c : c.userType = "power"),
          returningUsers |->
              IdsWhere(comments, LAMBDA c : c.userType = "returning"),
          unknownUsers |->
              IdsWhere(comments, LAMBDA c : c.userType = "unknown")],
     competitorMentions |->
         CompetitorMentionsFrom(ItemsOfField(comments, "competitorMentions"),
                                comments)]

analyzeReviews(reviews, options) ==
    AnalysisOf(AnalyzedAll(reviews, AllReviewTexts(reviews), options), options)

(***************************************************************************)
(* Trends over grouped comments: every period holds up to MaxCount         *)
(* comments of one score, each asking for dark mode and reporting a crash. *)
(***************************************************************************)
MaxBuckets == 3
MaxCount == 2
TrendScores == {1, 3, 5}

TrendComment(id, score) ==
    [id |-> id, date |-> 0, sentiment |-> "neutral", score |-> score,
     userName |-> PlainFields.userName, content |-> PlainFields.content,
     intentions |-> PlainFields.intentions, keywords |-> PlainFields.keywords,
     featureRequests |-> <<DarkMode>>, bugReports |-> <<Crash>>,
     severity |-> "high", userType |-> PlainFields.userType]

\* the grouped map of n months, newest first as groupCommentsByTimePeriod
\* generates them
TrendMap(n, buckets) ==
    [i \in 1..n |->
        [key |-> <<2024, n + 1 - i>>,
         value |-> [k \in 1..buckets[i].count |->
                       TrendComment(<<i, k>>, buckets[i].score)]]]

TrendMaps ==
    UNION {{TrendMap(n, buckets) :
               buckets \in [1..n -> [count : 0..MaxCount, score : TrendScores]]} :
           n \in 1..MaxBuckets}

RECURSIVE AllValues(_)
AllValues(map) ==
    IF map = <<>> THEN <<>> ELSE Head(map).value \o AllValues(Tail(map))

TrendFindings ==
    [topFeatureRequests |->
        <<[name |-> DarkMode, requests |-> <<DarkMode>>, priority |-> "high"]>>,
     criticalBugs |->
        <<[name |-> Crash, reports |-> <<Crash>>, impact |-> "high"]>>,
     competitorAnalysis |-> <<>>]

TrendInit ==
    /\ JobIdle /\ TxtIdle /\ ClsIdle
    /\ \E map \in TrendMaps :
        aggIn = [idle |-> FALSE, groupedComments |-> map,
                 options |-> [timePeriod |-> "month",
                              maxDataPoints |-> Len(map),
                              includeExportData |-> FALSE,
                              maxInsights |-> 0, maxFeatures |-> 0,
                              maxBugs |-> 0],
                 analysis |-> NoAnalysis, classification |-> TrendFindings,
                 comments |-> AllValues(map)]
    /\ aggOut = NoResult

\* aggregateResults from the grouped comments on
AggregateGrouped ==
    /\ aggOut = NoResult
    /\ aggOut' = aggregateResultsFrom(aggIn.comments, aggIn.analysis,
                                      aggIn.classification, aggIn.options,
                                      aggIn.groupedComments)
    /\ UNCHANGED <<aggIn, jobVars, txtVars, clsVars>>

TrendNext == AggregateGrouped

SpecTrend == TrendInit /\ [][TrendNext]_vars

CountsOf(trend) == [i \in 1..Len(trend.periods) |-> trend.periods[i].count]

\* only the most recent bucket has a positive count
OnlyMostRecent(counts) ==
    /\ counts[Len(counts)] > 0
    /\ \A i \in 1..(Len(counts) - 1) : counts[i] = 0

\* C15: for every bug cluster whose trend has at least 2 buckets, the status
\* is 'new' exactly when the most recent bucket has a positive count and
\* every earlier bucket has count 0; otherwise it is increasing or
\* decreasing when the count trend says so, and recurring in all remaining
\* cases.
C15_NewMeansOnlyMostRecentBucket ==
    aggOut.done =>
        \A b \in 1..Len(aggOut.trends.bugs) :
            LET bug == aggOut.trends.bugs[b]
                counts == CountsOf(bug)
            IN Len(counts) >= 2 =>
                /\ bug.status = "new" <=> OnlyMostRecent(counts)
                /\ ~OnlyMostRecent(counts) =>
                      bug.status = IF bug.trend = "increasing" THEN "increasing"
                                   ELSE IF bug.trend = "decreasing"
                                   THEN "decreasing"
                                   ELSE "recurring"

\* the overall-trend rule applied to plain counts
OverallRule(counts) ==
    analyzeTrend([i \in 1..Len(counts) |-> [average |-> <<counts[i], 1>>]])

\* C16: for every chronological count sequence of length >= 2,
\* determineTrend returns increasing / decreasing / stable exactly when the
\* overall-trend rule applied to the same numbers returns improving /
\* declining / stable.
C16_CountTrendFollowsOverallRule ==
    aggOut.done =>
        \A f \in 1..Len(aggOut.trends.features) :
            LET counts == CountsOf(aggOut.trends.features[f])
                rule == OverallRule(counts).trend
            IN Len(counts) >= 2 =>
                aggOut.trends.features[f].trend =
                    IF rule = "improving" THEN "increasing"
                    ELSE IF rule = "declining" THEN "decreasing"
                    ELSE "stable"

RECURSIVE ProductOfTotals(_)
ProductOfTotals(points) ==
    IF points = <<>> THEN 1
    ELSE Head(points).average[2] * ProductOfTotals(Tail(points))

\* the sum over a half of position * mean rating, scaled by the common
\* denominator d of all means
RECURSIVE ScaledWeighted(_, _, _)
ScaledWeighted(points, position, d) ==
    IF position > Len(points) THEN 0
    ELSE position * points[position].average[1]
            * (d \div points[position].average[2])
         + ScaledWeighted(points, position + 1, d)

RECURSIVE SumTo(_)
SumTo(n) == IF n = 0 THEN 0 ELSE n + SumTo(n - 1)

\* C17: analyzeTrend splits at least 2 data points at index floor(n/2),
\* averages the mean ratings of each half with weights position + 1 (from
\* 0), sets percentChange = (later - earlier) / earlier * 100 and returns
\* improving iff percentChange > 5, declining iff percentChange < -5, stable
\* otherwise; when the earlier average is 0, or there are fewer than 2
\* points, it returns stable with percentChange 0.
C17_OverallTrendRule ==
    aggOut.done =>
        LET points == aggOut.trends.overall.dataPoints
            n == Len(points)
            d == ProductOfTotals(points)
            earlier == ScaledWeighted(SubSeq(points, 1, n \div 2), 1, d)
            later == ScaledWeighted(SubSeq(points, n \div 2 + 1, n), 1, d)
            w1 == SumTo(n \div 2)
            w2 == SumTo(n - n \div 2)
            \* (later / w2 - earlier / w1) / (earlier / w1) * 100
            \*   = change / base
            change == 100 * (later * w1 - earlier * w2)
            base == earlier * w2
            trend == aggOut.trends.overall.trend
            percentChange == aggOut.trends.overall.percentChange
        IN IF n < 2 \/ earlier = 0
           THEN trend = "stable" /\ percentChange = Zero
           ELSE /\ percentChange.num * base = percentChange.den * change
                /\ trend = "improving" <=> change > 5 * base
                /\ trend = "declining" <=> change < -5 * base
                /\ trend = "stable" <=> (change <= 5 * base /\ change >= -5 * base)

\* three data points whose later half has two different means, and a rise
\* of more than 5 percent
C17_Witness ==
    /\ aggOut.done
    /\ Len(aggOut.trends.overall.dataPoints) = 3
    /\ AverageOf(aggOut.trends.overall.dataPoints[2])
         # AverageOf(aggOut.trends.overall.dataPoints[3])
    /\ AverageOf(aggOut.trends.overall.dataPoints[1]) # Zero
    /\ aggOut.trends.overall.trend = "improving"

(***************************************************************************)
(* Insights: up to MaxFindings top features of any priority, critical      *)
(* bugs and competitors, three rating histories and three user mixes.      *)
(***************************************************************************)
MaxFindings == 2
MaxInsightsOption == 3

FindingNames == <<DarkMode, NightMode, Widgets, UiUx>>

OneEach(score) == [count |-> 1, score |-> score]

\* rating histories, newest period first: steady; 5, 3, 5 (a fall of 13.3
\* percent); 1 then 5 (a rise of 400 percent)
InsightMaps == {TrendMap(1, <<OneEach(3)>>),
                TrendMap(3, <<OneEach(5), OneEach(3), OneEach(5)>>),
                TrendMap(2, <<OneEach(5), OneEach(1)>>)}

FeatureFindings ==
    UNION {{[i \in 1..n |->
                [name |-> FindingNames[i], requests |-> <<FindingNames[i]>>,
                 priority |-> priorities[i]]] :
               priorities \in [1..n -> {"high", "medium", "low"}]} :
           n \in 0..MaxFindings}

BugFindings ==
    {[i \in 1..n |->
         [name |-> FindingNames[i], reports |-> <<FindingNames[i]>>,
          impact |-> "high"]] : n \in 0..MaxFindings}

CompetitorFindings ==
    {<<>>} \cup {<<[competitor |-> "WhatsApp", mentions |-> mentions,
                    sentiment |-> 3]>> : mentions \in {4, 5, 21}}

UserSegmentMixes ==
    {[newUsers |-> <<>>, powerUsers |-> <<>>],
     [newUsers |-> <<"r1">>, powerUsers |-> <<>>],
     [newUsers |-> <<>>, powerUsers |-> <<"r1">>]}

InsightInit ==
    /\ JobIdle /\ TxtIdle /\ ClsIdle
    /\ \E map \in InsightMaps, features \in FeatureFindings,
          bugs \in BugFindings, competitors \in CompetitorFindings,
          segments \in UserSegmentMixes, maxInsights \in 0..MaxInsightsOption :
        aggIn = [idle |-> FALSE, groupedComments |-> map,
                 options |-> [timePeriod |-> "month",
                              maxDataPoints |-> Len(map),
                              includeExportData |-> FALSE,
                              maxInsights |-> maxInsights, maxFeatures |-> 0,
                              maxBugs |-> 0],
                 analysis |-> [keywords |-> NoAnalysis.keywords,
                               sentiment |-> NoAnalysis.sentiment,
                               userSegments |-> segments],
                 classification |-> [topFeatureRequests |-> features,
                                     criticalBugs |-> bugs,
                                     competitorAnalysis |-> competitors],
                 comments |-> AllValues(map)]
    /\ aggOut = NoResult

SpecInsights == InsightInit /\ [][TrendNext]_vars


\* every insight generated for the input, kept or not
GeneratedInsights ==
    SeqRange(PushedInsights(aggIn.analysis, aggIn.classification,
                            aggOut.trends.overall))

PriorityRank(insight) ==
    CHOOSE r \in 1..3 : <<"high", "medium", "low">>[r] = insight.priority

\* C18: for every input and every maxInsights >= 1, the returned insight
\* list has at most maxInsights entries, is ordered high before medium
\* before low, and no generated insight that was left out has a strictly
\* higher priority than one that was kept.
C18_InsightsRankedThenCapped ==
    (aggOut.done /\ aggIn.options.maxInsights >= 1) =>
        LET kept == aggOut.insights IN
        /\ Len(kept) <= aggIn.options.maxInsights
        /\ \A i, k \in 1..Len(kept) :
              i < k => PriorityRank(kept[i]) <= PriorityRank(kept[k])
        /\ SeqRange(kept) \subseteq GeneratedInsights
        /\ \A left \in GeneratedInsights \ SeqRange(kept) :
              \A i \in 1..Len(kept) :
                  PriorityRank(left) >= PriorityRank(kept[i])

\* an insight of high priority pushed after one of lower priority is kept
\* while the other is cut
C18_Witness ==
    /\ aggOut.done
    /\ aggIn.options.maxInsights >= 1
    /\ Len(aggOut.insights) = aggIn.options.maxInsights
    /\ \E left \in GeneratedInsights \ SeqRange(aggOut.insights) :
          /\ left.type = "feature"
          /\ \E i \in 1..Len(aggOut.insights) :
                /\ aggOut.insights[i].type = "bug"
                /\ PriorityRank(left) > PriorityRank(aggOut.insights[i])

(***************************************************************************)
(* The three stages run one after the other on up to MaxStageReviews raw   *)
(* reviews, as processJob runs them.                                       *)
(***************************************************************************)
\* Arrays are objects: a stage that sorts an array it was handed changes the
\* caller's list.  A heap is the sequence of the arrays a call works on;
\* array 1 is the comment list the stage received, and an array holds the
\* positions (in that list, as received) of the comment objects it refers to.
Allocate(heap, content) ==
    [heap |-> Append(heap, content), ref |-> Len(heap) + 1]

\* variant: the array itself, not a copy
NoCopy(heap, ref) == [heap |-> heap, ref |-> ref]

\* [...array]: a new array with the same elements
Spread(heap, ref) == Allocate(heap, heap[ref])

\* array.sort(compare): the array is sorted in place; sorted is its new order
SortInPlace(array, sorted) ==
    [heap |-> [array.heap EXCEPT ![array.ref] = sorted], ref |-> array.ref]

\* the positions of an array ordered newest first, as the comparison of
\* groupCommentsByTimePeriod orders them
NewestFirst(positions, comments) ==
    LET sorted == SortNewestFirst([i \in 1..Len(positions) |->
                                     [pos |-> positions[i],
                                      date |-> comments[positions[i]].date]])
    IN [i \in 1..Len(sorted) |-> sorted[i].pos]

\* groupCommentsByTimePeriod: const sortedComments = [...comments].sort(...)
SortedCommentsOf(copy, comments) ==
    SortInPlace(copy, NewestFirst(copy.heap[copy.ref], comments))

\* the heap when aggregateResults returns
HeapAfterAggregation(comments) ==
    SortedCommentsOf(Spread(<<[i \in 1..Len(comments) |-> i]>>, 1),
                     comments).heap

\* uniqueComments.sort((a, b) => b.score - a.score), or a.score - b.score
\* for bugs (sign -1)
ExamplesSorted(array, comments, sign) ==
    SortInPlace(array,
                SortDescByKeys(array.heap[array.ref],
                               [k \in 1..Len(array.heap[array.ref]) |->
                                   sign * comments[array.heap[array.ref][k]]
                                              .score]))

\* validClusters.map(...): every cluster gets its own uniqueComments array,
\* which is then sorted for the examples
RECURSIVE HeapAfterClusters(_, _, _, _, _)
HeapAfterClusters(heap, validClusters, phraseLists, comments, sign) ==
    IF validClusters = <<>> THEN heap
    ELSE HeapAfterClusters(
             ExamplesSorted(
                 Allocate(heap,
                          uniqueComments(ClusterComments(Head(validClusters),
                                                         phraseLists),
                                         comments)),
                 comments, sign).heap,
             Tail(validClusters), phraseLists, comments, sign)

\* the heap when classifyReviews returns
HeapAfterClassification(comments, options) ==
    HeapAfterClusters(
        HeapAfterClusters(<<[i \in 1..Len(comments) |-> i]>>,
                          ClustersOfPhrases(FeatureRequestsOf(comments),
                                            options),
                          FeatureRequestsOf(comments), comments, 1),
        ClustersOfPhrases(BugReportsOf(comments), options),
        BugReportsOf(comments), comments, -1)

\* the list a stage received, as the heap leaves it
Reordered(list, heap) == [i \in 1..Len(list) |-> list[heap[1][i]]]

MaxStageReviews == 5

BetterThanWhatsApp == <<"b", "e", "t", "t", "e", "r", " ", "t", "h", "a", "n", " ", "W", "h", "a", "t", "s", "A", "p", "p">>
PleaseAddWidgets == <<"p", "l", "e", "a", "s", "e", " ", "a", "d", "d", " ", "w", "i", "d", "g", "e", "t", "s">>

StageTexts == {BetterThanWhatsApp, PleaseAddWidgets}

\* complete raw reviews, ids 1..n, all dated today
StageReviews ==
    UNION {{[i \in 1..n |->
                [id |-> i, userName |-> Some(Ann), text |-> Some(texts[i]),
                 score |-> Some(3), thumbsUp |-> Some(0),
                 date |-> Some(FirstNow)]] :
               texts \in [1..n -> StageTexts]} :
           n \in 0..MaxStageReviews}

StageAnalysisOptions ==
    [minKeywordLength |-> 0, maxKeywords |-> 0, minKeywordFrequency |-> 0,
     maxExamples |-> 0]
\* the classification options unset, or a clusterThreshold of -0.5
StageClassificationOptions ==
    {[clusterThreshold |-> [num |-> n, den |-> d], minClusterSize |-> 0,
      maxClusters |-> 0] : <<n, d>> \in {<<0, 1>>, <<-1, 2>>}}

StageInit ==
    /\ JobIdle /\ AggIdle /\ ClsIdle
    /\ \E reviews \in StageReviews, maxInsights \in {0, 1, -1},
          classification \in StageClassificationOptions :
        txtIn = [idle |-> FALSE, reviews |-> reviews, now |-> FirstNow,
                 options |->
                    [analysis |-> StageAnalysisOptions,
                     classification |-> classification,
                     aggregation |->
                        [timePeriod |-> "week", maxDataPoints |-> 0,
                         includeExportData |-> FALSE,
                         maxInsights |-> maxInsights, maxFeatures |-> 0,
                         maxBugs |-> 0]]]
    /\ txtOut = NoOutput

\* an analyzed comment whose score is present, with the score as a number
Unwrapped(comments) ==
    [i \in 1..Len(comments) |->
        [comments[i] EXCEPT !.score = comments[i].score.value]]

AnalyzeStage ==
    /\ txtOut = NoOutput
    /\ txtOut' = [done |-> TRUE,
                  analysis |-> analyzeReviews(txtIn.reviews,
                                              txtIn.options.analysis)]
    /\ UNCHANGED <<txtIn, jobVars, aggVars, clsVars>>

\* analysis.comments is handed over as it is; the arrays the stage sorts
\* decide what the list looks like afterwards
ClassifyStage ==
    /\ txtOut.done /\ ~txtOut.analysis.threw
    /\ clsOut = NoClassification
    /\ clsIn' = [idle |-> FALSE,
                 comments |-> Unwrapped(txtOut.analysis.comments),
                 options |-> txtIn.options.classification]
    /\ clsOut' = classifyReviews(Unwrapped(txtOut.analysis.comments), <<>>,
                                 txtIn.options.classification)
    /\ txtOut' = [txtOut EXCEPT !.analysis.comments =
                     Reordered(@, HeapAfterClassification(
                                      Unwrapped(txtOut.analysis.comments),
                                      txtIn.options.classification))]
    /\ UNCHANGED <<txtIn, jobVars, aggVars>>

AggregateStage ==
    /\ clsOut.done
    /\ aggOut = NoResult
    /\ aggIn' = [idle |-> FALSE, now |-> txtIn.now,
                 options |-> txtIn.options.aggregation,
                 analysis |-> txtOut.analysis, classification |-> clsOut,
                 comments |-> Unwrapped(txtOut.analysis.comments)]
    /\ aggOut' = aggregateResults(Unwrapped(txtOut.analysis.comments),
                                  txtOut.analysis, clsOut,
                                  txtIn.options.aggregation,
                                  DateOfDays(txtIn.now))
    /\ txtOut' = [txtOut EXCEPT !.analysis.comments =
                     Reordered(@, HeapAfterAggregation(
                                      Unwrapped(txtOut.analysis.comments)))]
    /\ UNCHANGED <<txtIn, jobVars, clsVars>>

StageNext == AnalyzeStage \/ ClassifyStage \/ AggregateStage

SpecStages == StageInit /\ [][StageNext]_vars

\* C13: called with an empty review list, analyzeReviews, classifyReviews
\* and aggregateResults each return without error a result whose counts are
\* 0, whose lists are empty and whose averages are 0.
C13_EmptyListGivesZeroes ==
    (~txtIn.idle /\ txtIn.reviews = <<>>) =>
        /\ txtOut.done =>
              /\ ~txtOut.analysis.threw
              /\ txtOut.analysis.comments = <<>>
              /\ txtOut.analysis.keywords = <<>>
              /\ txtOut.analysis.featureRequests = <<>>
              /\ txtOut.analysis.bugReports = <<>>
              /\ txtOut.analysis.competitorMentions = <<>>
              /\ txtOut.analysis.sentiment.positive = 0
              /\ txtOut.analysis.sentiment.negative = 0
              /\ txtOut.analysis.sentiment.neutral = 0
              /\ txtOut.analysis.sentiment.average = Num(Zero)
        /\ clsOut.done =>
              /\ clsOut.featureClusters = <<>>
              /\ clsOut.bugClusters = <<>>
              /\ clsOut.topFeatureRequests = <<>>
              /\ clsOut.criticalBugs = <<>>
        /\ aggOut.done =>
              /\ aggOut.summary.totalReviews = 0
              /\ AverageOf(aggOut.summary.ratingDistribution) = Zero
              /\ aggOut.trends.overall.percentChange = Zero
              /\ \A i \in 1..Len(DataPoints) :
                    DataPoints[i].total = 0 /\ AverageOf(DataPoints[i]) = Zero
              /\ aggOut.insights = <<>>
              /\ aggOut.topFeatures = <<>>
              /\ aggOut.criticalBugs = <<>>

\* the competitors that at least 5 analyzed comments mention
MuchMentioned ==
    {competitor \in SeqRange(COMPETITORS) :
        Cardinality({i \in 1..Len(txtOut.analysis.comments) :
            competitor \in
                SeqRange(txtOut.analysis.comments[i].competitorMentions)})
          >= 5}

\* C19: whenever at least 5 analyzed comments of one run mention the same
\* competitor, the insight list of the run holds a competitor insight,
\* unless the list was cut at maxInsights.
C19_CompetitorInsightForFiveMentions ==
    (aggOut.done /\ MuchMentioned # {}) =>
        \/ \E i \in 1..Len(aggOut.insights) :
              aggOut.insights[i].type = "competitor"
        \/ \E cut \in GeneratedInsights \ SeqRange(aggOut.insights) :
              cut.type = "competitor"

\* the values an option bag may hold: 0 stands for an unset option
ValidOptions(options) ==
    /\ options.classification.clusterThreshold.num >= 0
    /\ options.classification.clusterThreshold.num
         <= options.classification.clusterThreshold.den
    /\ options.classification.minClusterSize >= 0
    /\ options.classification.maxClusters >= 0
    /\ options.aggregation.maxDataPoints >= 0
    /\ options.aggregation.maxInsights >= 0

\* C14: an option bag with an invalid value (a negative or out-of-range
\* clusterThreshold, a negative minClusterSize, maxClusters, maxDataPoints
\* or maxInsights) is rejected before any per-review work begins: no stage
\* ever runs with such a value.
C14_InvalidOptionsRejectedEarly ==
    (~txtIn.idle /\ (txtOut.done \/ clsOut.done \/ aggOut.done)) =>
        ValidOptions(txtIn.options)

\* the pipeline of job j has started and not yet ended
Running(j) == pc[j] \notin {"none", "created", "done"}

\* two requests with caching enabled that share a cache key
SameKeyCached(i, j) ==
    /\ i # j
    /\ jobs[i] # NoJob /\ jobs[j] # NoJob
    /\ jobs[i].options.cacheEnabled /\ jobs[j].options.cacheEnabled
    /\ generateCacheKey(jobs[i].appId, jobs[i].options)
         = generateCacheKey(jobs[j].appId, jobs[j].options)

\* C20: with caching enabled, a second request for a cache key issued while
\* the first is still in flight starts no second metadata fetch, no second
\* review fetch and no second pipeline run for that key.
C20_SingleFlightPerKey ==
    \A i, j \in JobIds :
        SameKeyCached(i, j) =>
            /\ ~(pc[i] = "metaFetch" /\ pc[j] = "metaFetch")
            /\ ~(pc[i] = "revFetch" /\ pc[j] = "revFetch")
            /\ ~(Running(i) /\ Running(j))

(***************************************************************************)
(* The caches behind fetchAppMetadata and fetchReviews, called directly,   *)
(* and the hourly cleanupCache.  Here a cache is the Map itself: its       *)
(* entries [key, value] in insertion order, the order cleanupCache sorts.  *)
(***************************************************************************)
MaxSize == 1
MaxKeys == 2
MaxCalls == 2

FetchKeys == 1..MaxKeys
CallIds == 1..MaxCalls
CacheNames == {"metadata", "reviews"}

NoCall == [state |-> "none"]

CacheInit ==
    /\ AggIdle /\ TxtIdle /\ ClsIdle
    /\ jobs = [j \in JobIds |-> NoJob]
    /\ pc = [j \in JobIds |-> "none"]
    /\ active = 0
    /\ analysisCache = <<>>
    /\ metadataCache = <<>>
    /\ reviewCache = <<>>
    /\ reviewCount = [j \in JobIds |-> 0]
    /\ aborted = [j \in JobIds |-> FALSE]
    /\ now = 0
    /\ cancelledInFlight = {}
    /\ metrics = [cacheHits |-> 0, cacheMisses |-> 0]
    /\ calls = [c \in CallIds |-> NoCall]

\* the Map a call works on
CacheOf(name) == IF name = "metadata" THEN metadataCache ELSE reviewCache

\* cacheEnabled && cache.has(key) && entry.expiresAt > now
MapFresh(cache, key) == MapHas(cache, key) /\ MapGet(cache, key).expiresAt > now

\* fetchAppMetadata / fetchReviews: getOrFetch up to the await of fetchFn
FetchStart(c, name, key, enabled) ==
    /\ UNCHANGED nonJobVars
    /\ calls[c] = NoCall
    /\ \A i \in CallIds : i < c => calls[i] # NoCall
    /\ LET hit == enabled /\ MapFresh(CacheOf(name), key) IN
        /\ metrics' = Counted(metrics, hit)
        /\ calls' = [calls EXCEPT ![c] =
                [state |-> IF hit THEN "returned" ELSE "fetching",
                 cache |-> name, key |-> key, enabled |-> enabled,
                 data |-> IF hit THEN MapGet(CacheOf(name), key).data
                          ELSE "none"]]
    /\ UNCHANGED <<jobs, pc, active, analysisCache, metadataCache,
                   reviewCache, reviewCount, aborted, now, cancelledInFlight>>

\* fetchFn settles: the data is cached when caching is enabled, or the
\* error goes to the caller
FetchDone(c, ok) ==
    /\ UNCHANGED nonJobVars
    /\ calls[c] # NoCall
    /\ calls[c].state = "fetching"
    /\ calls' = [calls EXCEPT ![c] =
            [@ EXCEPT !.state = IF ok THEN "returned" ELSE "threw",
                      !.data = IF ok THEN <<"fetched", now>> ELSE "none"]]
    /\ metadataCache' =
            IF ok /\ calls[c].enabled /\ calls[c].cache = "metadata"
            THEN MapSet(metadataCache, calls[c].key,
                        [data |-> <<"fetched", now>>, timestamp |-> now,
                         expiresAt |-> now + Ttl])
            ELSE metadataCache
    /\ reviewCache' =
            IF ok /\ calls[c].enabled /\ calls[c].cache = "reviews"
            THEN MapSet(reviewCache, calls[c].key,
                        [data |-> <<"fetched", now>>, timestamp |-> now,
                         expiresAt |-> now + Ttl])
            ELSE reviewCache
    /\ UNCHANGED <<jobs, pc, active, analysisCache, reviewCount, aborted, now,
                   cancelledInFlight, metrics>>

\* the first loops of cleanupCache: if (entry.expiresAt < now) delete
WithoutExpired(cache) ==
    SelectSeq(cache, LAMBDA e : ~(e.value.expiresAt < now))

\* sort((a, b) => a[1].timestamp - b[1].timestamp): the position of entry i
\* in the stable ascending order
OldestRank(cache, i) ==
    Cardinality({k \in 1..Len(cache) :
                    \/ cache[k].value.timestamp < cache[i].value.timestamp
                    \/ cache[k].value.timestamp = cache[i].value.timestamp
                       /\ k < i})

\* if (size > maxSize) the size - maxSize oldest entries are deleted
WithinMaxSize(cache) ==
    IF Len(cache) > MaxSize
    THEN SelectSeq([i \in 1..Len(cache) |->
                       [entry |-> cache[i],
                        keep |-> OldestRank(cache, i) >= Len(cache) - MaxSize]],
                   LAMBDA x : x.keep)
    ELSE [i \in 1..Len(cache) |-> [entry |-> cache[i], keep |-> TRUE]]

Cleaned(cache) ==
    [i \in 1..Len(WithinMaxSize(WithoutExpired(cache))) |->
        WithinMaxSize(WithoutExpired(cache))[i].entry]

\* the setInterval callback
CleanupCache ==
    /\ UNCHANGED nonJobVars
    /\ reviewCache' = Cleaned(reviewCache)
    /\ metadataCache' = Cleaned(metadataCache)
    /\ analysisCache' = Cleaned(analysisCache)
    /\ UNCHANGED <<jobs, pc, active, reviewCount, aborted, now,
                   cancelledInFlight, metrics, calls>>

CacheNext ==
    \/ \E c \in CallIds, name \in CacheNames, key \in FetchKeys,
          enabled \in BOOLEAN : FetchStart(c, name, key, enabled)
    \/ \E c \in CallIds, ok \in BOOLEAN : FetchDone(c, ok)
    \/ CleanupCache
    \/ Tick

SpecCache == CacheInit /\ [][CacheNext]_vars

\* C21: each of the three caches holds at most cacheConfig.maxSize entries
\* after any sequence of fetchReviews, fetchAppMetadata and cleanupCache.
C21_CachesWithinMaxSize ==
    /\ Len(reviewCache) <= MaxSize
    /\ Len(metadataCache) <= MaxSize
    /\ Len(analysisCache) <= MaxSize

(***************************************************************************)
(* The three stages on reviews of different dates and ratings, so that the *)
(* sorts inside the stages have something to reorder.                      *)
(***************************************************************************)
MaxFrameReviews == 3

\* reviews asking for widgets, of yesterday or today, rated 1 or 5
FrameReviews ==
    UNION {{[i \in 1..n |->
                [id |-> i, userName |-> Some(Ann),
                 text |-> Some(PleaseAddWidgets),
                 score |-> Some(marks[i][1]), thumbsUp |-> Some(0),
                 date |-> Some(marks[i][2])]] :
               marks \in [1..n -> {1, 5} \X {FirstNow - 1, FirstNow}]} :
           n \in 1..MaxFrameReviews}

FrameInit ==
    /\ JobIdle /\ AggIdle /\ ClsIdle
    /\ \E reviews \in FrameReviews :
        txtIn = [idle |-> FALSE, reviews |-> reviews, now |-> FirstNow,
                 options |->
                    [analysis |-> StageAnalysisOptions,
                     classification |->
                        [clusterThreshold |-> [num |-> 0, den |-> 1],
                         minClusterSize |-> 0, maxClusters |-> 0],
                     aggregation |->
                        [timePeriod |-> "week", maxDataPoints |-> 0,
                         includeExportData |-> FALSE, maxInsights |-> 0,
                         maxFeatures |-> 0, maxBugs |-> 0]]]
    /\ txtOut = NoOutput

SpecFrame == FrameInit /\ [][StageNext]_vars

\* C22: no stage changes a structure it received: the review list never
\* changes, the analysis result (the order and every field of its comments
\* included) never changes once analyzeReviews has returned it, and the
\* classification result never changes once classifyReviews has returned it.
C22_StagesLeaveInputsAlone ==
    [][/\ txtIn' = txtIn
       /\ txtOut.done => txtOut' = txtOut
       /\ clsOut.done => clsOut' = clsOut]_vars

\* the comments were handed over oldest first and with a lower rating first,
\* a feature cluster was built from them, and all three stages have returned
C22_Witness ==
    /\ aggOut.done
    /\ Len(clsOut.featureClusters) > 0
    /\ \E i, j \in 1..Len(aggIn.comments) :
          /\ i < j
          /\ aggIn.comments[i].date < aggIn.comments[j].date
          /\ aggIn.comments[i].score < aggIn.comments[j].score

(***************************************************************************)
(* clusterSimilarItems, one turn of its while loop at a time.  clsIn holds *)
(* the items, the threshold and the similarity matrix; clsOut holds the    *)
(* clusters (of item indices) and whether the function has returned.       *)
(***************************************************************************)
MaxItems == 3

ClusterPhrases == {DarkMode, DarkModeAgain, NightMode, Widgets}

ClusterThresholds ==
    {[num |-> 1, den |-> 4], DefaultClusterThreshold, [num |-> 1, den |-> 1]}

ClusterInit ==
    /\ JobIdle /\ AggIdle /\ TxtIdle
    /\ \E n \in 0..MaxItems :
        \E items \in [1..n -> ClusterPhrases],
           threshold \in ClusterThresholds :
            clsIn = [idle |-> FALSE, items |-> items, threshold |-> threshold]
    /\ clsOut = NoClassification

\* clusterSimilarItems up to the while loop: the early returns, the
\* similarity matrix and one cluster per item
StartClustering ==
    /\ ~clsIn.idle
    /\ clsOut = NoClassification
    /\ clsIn' = [idle |-> FALSE, items |-> clsIn.items,
                 threshold |-> clsIn.threshold,
                 similarityMatrix |->
                     IF Len(clsIn.items) <= 1 THEN <<>>
                     ELSE SimilarityMatrix(clsIn.items)]
    /\ clsOut' = [done |-> FALSE, started |-> TRUE,
                  returned |-> Len(clsIn.items) <= 1,
                  clusters |->
                      IF Len(clsIn.items) = 0 THEN <<>>
                      ELSE IF Len(clsIn.items) = 1
                      THEN <<<<1>>>>
                      ELSE [i \in 1..Len(clsIn.items) |-> <<i>>],
                  merges |-> 0]
    /\ UNCHANGED <<jobVars, aggVars, txtVars>>

\* one evaluation of the loop condition and, if it holds, one turn
MergeTurn ==
    /\ clsOut # NoClassification
    /\ ~clsOut.returned
    /\ clsOut' =
          IF Len(clsOut.clusters) <= 1
             \/ RatLess(BestMerge(clsOut.clusters,
                                  clsIn.similarityMatrix).maxSimilarity,
                        clsIn.threshold)
          THEN [clsOut EXCEPT !.returned = TRUE]
          ELSE [clsOut EXCEPT
                   !.clusters = MergedClusters(
                                    clsOut.clusters,
                                    BestMerge(clsOut.clusters,
                                              clsIn.similarityMatrix)),
                   !.merges = @ + 1]
    /\ UNCHANGED <<clsIn, jobVars, aggVars, txtVars>>

ClusterNext == StartClustering \/ MergeTurn

SpecCluster == ClusterInit /\ [][ClusterNext]_vars

\* the sum of the similarities of a set of pairs of items
RECURSIVE SumOfPairs(_, _)
SumOfPairs(pairs, matrix) ==
    IF pairs = {} THEN Ratio(0, 1)
    ELSE LET p == CHOOSE q \in pairs : TRUE
         IN RatAdd(matrix[p[1]][p[2]], SumOfPairs(pairs \ {p}, matrix))

\* the mean similarity over all pairs of one member of each cluster
MeanSimilarity(a, b, matrix) ==
    LET pairs == SeqRange(a) \X SeqRange(b)
        total == SumOfPairs(pairs, matrix)
    IN Ratio(total.num, total.den * Cardinality(pairs))

\* clusters i and j were merged in this step: j is gone, i holds both
MergedPair(i, j) ==
    /\ Len(clsOut'.clusters) = Len(clsOut.clusters) - 1
    /\ SeqRange(clsOut'.clusters[i])
         = SeqRange(clsOut.clusters[i]) \cup SeqRange(clsOut.clusters[j])
    /\ \A k \in 1..Len(clsOut'.clusters) :
          k # i => clsOut'.clusters[k]
                     = clsOut.clusters[IF k < j THEN k ELSE k + 1]

\* C24: when clusterSimilarItems returns, a single cluster remains or every
\* two remaining clusters have a mean pairwise similarity strictly below the
\* threshold; every merge joined a pair whose mean similarity was the
\* highest of all pairs at that step and at least the threshold.
C24_MergesBestPairUntilBelowThreshold ==
    /\ [](clsOut # NoClassification /\ clsOut.returned =>
            \/ Len(clsOut.clusters) <= 1
            \/ \A i, j \in 1..Len(clsOut.clusters) :
                  i < j => RatLess(MeanSimilarity(clsOut.clusters[i],
                                                  clsOut.clusters[j],
                                                  clsIn.similarityMatrix),
                                   clsIn.threshold))
    /\ [][clsOut # NoClassification /\ clsOut'.clusters # clsOut.clusters =>
            \E i, j \in 1..Len(clsOut.clusters) :
                /\ i < j
                /\ MergedPair(i, j)
                /\ ~RatLess(MeanSimilarity(clsOut.clusters[i],
                                           clsOut.clusters[j],
                                           clsIn.similarityMatrix),
                            clsIn.threshold)
                /\ \A a, b \in 1..Len(clsOut.clusters) :
                      a < b =>
                        ~RatLess(MeanSimilarity(clsOut.clusters[i],
                                                clsOut.clusters[j],
                                                clsIn.similarityMatrix),
                                 MeanSimilarity(clsOut.clusters[a],
                                                clsOut.clusters[b],
                                                clsIn.similarityMatrix))]_vars

\* the function has returned after a merge, with two clusters left
C24_Witness ==
    /\ clsOut # NoClassification
    /\ clsOut.returned
    /\ clsOut.merges > 0
    /\ Len(clsOut.clusters) = 2

\* C25: during the loop and on return the clusters are non-empty and every
\* item index is in exactly one of them, exactly once; a turn of the loop
\* either ends the loop or makes the clusters one fewer, so that there are
\* at most n - 1 merges for n items.
C25_ClustersPartitionTheItems ==
    /\ [](clsOut # NoClassification =>
            /\ \A c \in 1..Len(clsOut.clusters) : clsOut.clusters[c] # <<>>
            /\ \A index \in 1..Len(clsIn.items) :
                  Cardinality({<<c, m>> \in (1..Len(clsOut.clusters))
                                               \X (1..Len(clsIn.items)) :
                                  /\ m <= Len(clsOut.clusters[c])
                                  /\ clsOut.clusters[c][m] = index}) = 1
            /\ \A c \in 1..Len(clsOut.clusters) :
                  SeqRange(clsOut.clusters[c]) \subseteq 1..Len(clsIn.items)
            /\ clsOut.merges <= Len(clsIn.items) - 1 \/ clsIn.items = <<>>)
    /\ [][clsOut # NoClassification =>
            \/ clsOut'.returned /\ clsOut'.clusters = clsOut.clusters
            \/ /\ ~clsOut'.returned
               /\ Len(clsOut'.clusters) = Len(clsOut.clusters) - 1]_vars

\* the loop is running after a merge: a cluster of two items and another one
C25_Witness ==
    /\ clsOut # NoClassification
    /\ ~clsOut.returned
    /\ clsOut.merges = 1
    /\ Len(clsOut.clusters) = 2

(***************************************************************************)
(* classifyReviews on comments that report bugs with different severities  *)
(* and ratings.                                                            *)
(***************************************************************************)
MaxBugComments == 3

Severities == {"low", "medium", "high"}

BugComments(n) ==
    {[i \in 1..n |->
        [id |-> i, featureRequests |-> <<>>, bugReports |-> <<phrase[i]>>,
         score |-> score[i], sentiment |-> "negative",
         severity |-> severity[i]]] :
        phrase \in [1..n -> {Crash, Widgets}],
        score \in [1..n -> {2, 5}],
        severity \in [1..n -> Severities]}

SeverityInit ==
    /\ JobIdle /\ AggIdle /\ TxtIdle
    /\ \E n \in 0..MaxBugComments :
        \E comments \in BugComments(n) :
            clsIn = [idle |-> FALSE, comments |-> comments,
                     options |-> [clusterThreshold |-> [num |-> 0, den |-> 1],
                                  minClusterSize |-> 1, maxClusters |-> 0]]
    /\ clsOut = NoClassification

SpecSeverity == SeverityInit /\ [][ClassifyNext]_vars

\* low < medium < high
SeverityRank(level) ==
    IF level = "high" THEN 3 ELSE IF level = "medium" THEN 2 ELSE 1

\* the comments of the input that a cluster counts
CountedIn(bug) ==
    {k \in 1..Len(clsIn.comments) :
        clsIn.comments[k].id \in SeqRange(bug.comments)}

\* C26: the severity of a bug cluster is the highest severity of the
\* comments counted in it, its impact is never below its severity, and a
\* cluster of severity high has impact high and is among the critical bugs.
C26_ImpactNotBelowSeverity ==
    clsOut.done =>
        \A b \in 1..Len(clsOut.bugClusters) :
            /\ \E k \in CountedIn(clsOut.bugClusters[b]) :
                  clsIn.comments[k].severity = clsOut.bugClusters[b].severity
            /\ \A k \in CountedIn(clsOut.bugClusters[b]) :
                  SeverityRank(clsIn.comments[k].severity)
                    <= SeverityRank(clsOut.bugClusters[b].severity)
            /\ SeverityRank(clsOut.bugClusters[b].impact)
                 >= SeverityRank(clsOut.bugClusters[b].severity)
            /\ clsOut.bugClusters[b].severity = "high" =>
                  /\ clsOut.bugClusters[b].impact = "high"
                  /\ clsOut.bugClusters[b] \in SeqRange(clsOut.criticalBugs)

\* a cluster of two comments rated 5, one of severity low and one of
\* severity high, next to another cluster
C26_Witness ==
    /\ clsOut.done
    /\ Len(clsOut.bugClusters) = 2
    /\ \E b \in 1..2 :
          /\ clsOut.bugClusters[b].severity = "high"
          /\ clsOut.bugClusters[b].count = 2
          /\ \E k \in CountedIn(clsOut.bugClusters[b]) :
                clsIn.comments[k].severity = "low"
          /\ \A k \in CountedIn(clsOut.bugClusters[b]) :
                clsIn.comments[k].score = 5

(***************************************************************************)
(* Further claims about the job state machine.                             *)
(***************************************************************************)
\* the cache key of job j
KeyOf(j) == generateCacheKey(jobs[j].appId, jobs[j].options)

\* this step is job j passing the checkpoint after the fetches: the review
\* fetch has returned (it did not throw)
AfterFetching(j) == \E n \in 0..MaxReviews : ReviewsDone(j, TRUE, n)

\* this step is job j passing the checkpoint after the analysis or the one
\* after the classification
AfterStage(j) ==
    \/ pc[j] = "analyzing" /\ reviewCount[j] # 0 /\ pc'[j] # pc[j]
    \/ pc[j] = "classifying" /\ pc'[j] # pc[j]

\* C23: a job that reaches a checkpoint with its signal aborted ends failed
\* with 'Operation aborted'; no later stage runs, its result stays unset and
\* the step writes no analysis cache entry; a run that has ended never
\* takes another step.
C23_AbortAtCheckpointFailsTheJob ==
    [][\A j \in JobIds :
        /\ aborted[j] /\ (AfterFetching(j) \/ AfterStage(j)) =>
              /\ jobs'[j].status = "failed"
              /\ jobs'[j].error = AbortMessage
              /\ jobs'[j].result = "none"
              /\ pc'[j] = "done"
              /\ analysisCache' = analysisCache
        /\ pc[j] = "done" =>
              /\ pc'[j] = "done"
              /\ jobs'[j].result = jobs[j].result]_vars

\* a job of an enabled cache has ended at the checkpoint after the fetches
C23_Witness ==
    \E j \in JobIds :
        /\ jobs[j] # NoJob
        /\ jobs[j].options.cacheEnabled
        /\ aborted[j]
        /\ pc[j] = "done"
        /\ jobs[j].error = AbortMessage
        /\ jobs[j].status = "failed"
        /\ reviewCache[KeyOf(j)].present

\* C27: a job whose status is completed has a result, progress 100 and an
\* end time.
C27_CompletedJobIsWhole ==
    \A j \in JobIds :
        jobs[j] # NoJob /\ jobs[j].status = "completed" =>
            /\ jobs[j].result # "none"
            /\ jobs[j].progress = 100
            /\ jobs[j].endTime

\* a job cancelled during its run has completed all the same, next to a job
\* completed from the cache
C27_Witness ==
    \E i, j \in JobIds :
        /\ jobs[i] # NoJob /\ jobs[j] # NoJob
        /\ i \in cancelledInFlight
        /\ jobs[i].status = "completed"
        /\ <<"result", i>> = jobs[i].result
        /\ jobs[j].status = "completed"
        /\ <<"result", i>> = jobs[j].result
        /\ i # j

FetchThrows(j) ==
    \/ MetadataDone(j, FALSE)
    \/ \E n \in 0..MaxReviews : ReviewsDone(j, FALSE, n)

\* C30: a getOrFetch call whose fetch throws counts exactly one miss (when
\* the fetch starts, none when it throws) and leaves the caches as they
\* are; the job ends failed with the message of the error and without a
\* result.
C30_FailedFetchLeavesCacheAlone ==
    [][\A j \in JobIds :
        /\ pc'[j] \in {"metaFetch", "revFetch"} /\ pc[j] # pc'[j] =>
              /\ metrics'.cacheMisses = metrics.cacheMisses + 1
              /\ metrics'.cacheHits = metrics.cacheHits
        /\ FetchThrows(j) =>
              /\ metrics' = metrics
              /\ metadataCache' = metadataCache
              /\ reviewCache' = reviewCache
              /\ analysisCache' = analysisCache
              /\ jobs'[j].status = "failed"
              /\ jobs'[j].error = FetchMessage
              /\ jobs'[j].result = "none"]_vars

\* a review fetch has thrown while the cache held an expired entry of its
\* key, after the metadata were fetched
C30_Witness ==
    \E j \in JobIds :
        /\ pc[j] = "done"
        /\ jobs[j].options.cacheEnabled
        /\ jobs[j].error = FetchMessage
        /\ jobs[j].status = "failed"
        /\ reviewCache[KeyOf(j)].present
        /\ reviewCache[KeyOf(j)].expiresAt <= now
        /\ metadataCache[jobs[j].appId].timestamp = now
        /\ metrics.cacheMisses >= 3

(***************************************************************************)
(* The job system under fair scheduling: the event loop runs every         *)
(* continuation that is ready, and every fetch returns or throws.          *)
(***************************************************************************)
\* the next step of the run of job j, whichever it is
RunStep(j) ==
    \/ AnalyzeAppCached(j)
    \/ RunStart(j)
    \/ \E ok \in BOOLEAN : MetadataDone(j, ok)
    \/ \E ok \in BOOLEAN, n \in 0..MaxReviews : ReviewsDone(j, ok, n)
    \/ Analyze(j)
    \/ Classify(j)
    \/ Aggregate(j)

Fairness == \A j \in JobIds : WF_vars(RunStep(j))

SpecLive == Init /\ [][Next]_vars /\ Fairness

\* C28: with every ready continuation run and every fetch settled, a job
\* created by analyzeApp reaches status completed or failed, and from some
\* point on it shows one of the two for good.
C28_EveryJobEnds ==
    \A j \in JobIds :
        /\ (jobs[j] # NoJob) ~> Terminal(jobs[j].status)
        /\ (jobs[j] # NoJob) ~> [](Terminal(jobs[j].status))

\* a job has ended in each of the two ways, one of them after both fetches
C28_Witness ==
    \E i, j \in JobIds :
        /\ pc[i] = "done" /\ pc[j] = "done"
        /\ jobs[i].status = "completed"
        /\ jobs[i].progress = 100
        /\ jobs[j].status = "failed"
        /\ jobs[j].error = FetchMessage

====
